---- MODULE Spec2Model ----
(***************************************************************************)
(* Model of the Gender/Language enrichment driver                          *)
(* (src/OpenAI_Prediction/enrich_and_update_master_items.py): the retry    *)
(* loop of one prediction unit, the chunked dispatch of a page's units,    *)
(* the two MERGE upserts and the paging loop with its watermark.           *)
(***************************************************************************)
EXTENDS Integers, Sequences, FiniteSets, TLC

(***************************************************************************)
(* Bounds of the model.                                                    *)
(***************************************************************************)
\* rows of dbo.MasterItems handled by the driver specification
NumItems == 3
\* largest DB_BATCH_SIZE drawn by Init
MaxBatch == 2
\* largest API_CALL_CONCURRENCY drawn by Init
MaxConc == 2
\* largest MAX_TOTAL_RECORDS_TO_PROCESS drawn by Init
MaxBudget == 3
\* store faults (failed connection, failed statement) injected in one run
MaxFaults == 1
\* largest value kept of the cumulative counter when no budget is set
CountCap == 6
\* keys of the destination table in the upsert bench
LabItems == 2
\* longest (Id, value) list in the upsert bench
MaxList == 2

(***************************************************************************)
(* Program constants.                                                      *)
(***************************************************************************)
RETRY_ATTEMPTS == 3
RETRY_DELAY_SECONDS == 5
INTER_BATCH_DELAY_SECONDS == 2

\* SQL NULL and Python's None
NULL == "NULL"

GenderValues == {"FEMALE", "MALE"}
LanguageValues == {"English", "isiZulu"}

(***************************************************************************)
(* dbo.Genders / dbo.Languages: a table is a function from MasterItemId to *)
(* the sequence of Description values of the rows holding that key (<<>>:  *)
(* no row).  DateCreated, set by GETDATE() on insert only and never read,  *)
(* is left out.                                                            *)
(***************************************************************************)

\* T-SQL a <> b: UNKNOWN (treated as not true) when either side is NULL
SqlNe(a, b) == a # NULL /\ b # NULL /\ a # b

\* #Temp... (MasterItemId INT PRIMARY KEY): executemany fails on a repeated key
HasDuplicateKey(list) ==
    \E i, j \in DOMAIN list : i < j /\ list[i][1] = list[j][1]

\* A statement that inserts the source row beside a matched row instead of
\* updating it: C15 tells it from the code's
MatchedRowsAppended(rows, d) == Append(rows, d)

\* A MERGE whose WHEN MATCHED clause never fires: C5 tells it from the code's
MatchedRowsKept(rows, d) == rows

\* A MERGE whose WHEN MATCHED clause has no <> condition, so that every
\* matched row counts as updated: C4 tells it from the code's
UpdatedCountUnconditional(rows, d) == Len(rows)

\* WHEN MATCHED AND target.Description <> source.Description THEN UPDATE
MatchedRows(rows, d) ==
    [k \in DOMAIN rows |-> IF SqlNe(rows[k], d) THEN d ELSE rows[k]]

UpdatedCount(rows, d) == Cardinality({k \in DOMAIN rows : SqlNe(rows[k], d)})

\* The MERGE statement, one source row after the other (the source keys are
\* distinct).  acc = [table, rowcount, written]: written is the set of keys
\* with a row inserted or updated.
RECURSIVE MergeFrom(_, _, _)
MergeFrom(acc, list, i) ==
    IF i > Len(list) THEN acc
    ELSE LET id == list[i][1]
             d == list[i][2]
             rows == acc.table[id]
         IN  IF rows = <<>>
             THEN MergeFrom([table |-> [acc.table EXCEPT ![id] = <<d>>],
                             rowcount |-> acc.rowcount + 1,
                             written |-> acc.written \cup {id}], list, i + 1)
             ELSE MergeFrom([table |-> [acc.table EXCEPT ![id] = MatchedRows(rows, d)],
                             rowcount |-> acc.rowcount + UpdatedCount(rows, d),
                             written |-> IF UpdatedCount(rows, d) > 0
                                         THEN acc.written \cup {id}
                                         ELSE acc.written], list, i + 1)

\* Both upsert functions have the same body.  fault: "none", "error" (a
\* pyodbc.Error in the try block, rolled back, 0 returned) or "rollback_raises"
\* (conn.rollback() itself raises, so the pyodbc.Error leaves the function).
\* outcome: "skipped" (empty list), "committed", "rolled_back" or "raised".
BatchUpsert(table, list, fault) ==
    IF list = <<>>
    THEN [table |-> table, ret |-> 0, written |-> {}, outcome |-> "skipped"]
    ELSE IF fault # "none" \/ HasDuplicateKey(list)
    THEN [table |-> table, ret |-> 0, written |-> {},
          outcome |-> IF fault = "rollback_raises" THEN "raised" ELSE "rolled_back"]
    ELSE LET m == MergeFrom([table |-> table, rowcount |-> 0, written |-> {}], list, 1)
         IN  [table |-> m.table, ret |-> m.rowcount, written |-> m.written,
              outcome |-> "committed"]

batch_upsert_genders(table, list, fault) == BatchUpsert(table, list, fault)

batch_upsert_languages(table, list, fault) == BatchUpsert(table, list, fault)

(***************************************************************************)
(* One prediction unit: a call of get_person_prediction_async.             *)
(*   st       "new" (coroutine object not yet scheduled), "calling" (the   *)
(*            API call is awaited), "sleeping" (the back-off sleep is      *)
(*            awaited) or "done" (returned)                                *)
(*   attempt  the loop variable of line 57 (0 once the function returned)  *)
(*   delay    argument of the asyncio.sleep being awaited                  *)
(*   res      the returned dictionary: [kind, error, prediction]           *)
(***************************************************************************)
NoPayload == [dict |-> FALSE, gender |-> NULL, language |-> NULL]

NoResult == [kind |-> "none", error |-> "none", prediction |-> NoPayload]

NewUnit == [st |-> "new", attempt |-> 0, delay |-> 0, res |-> NoResult]

\* What json.loads can return for a successful call: an object with both
\* fields, an object whose language is missing or empty, or JSON that is
\* not an object at all (dict = FALSE).
Payloads == {[dict |-> TRUE, gender |-> "MALE", language |-> "English"],
             [dict |-> TRUE, gender |-> "MALE", language |-> NULL],
             NoPayload}

\* The three ways an attempt fails: the call raises, the text is not JSON,
\* the response has no output content.
Failures == {"API Error", "JSONDecodeError", "Unexpected response structure"}

\* What one awaited API call can come back with
Outcomes ==
    {[ok |-> TRUE, payload |-> p, error |-> "none"] : p \in Payloads}
        \cup {[ok |-> FALSE, payload |-> NoPayload, error |-> e] : e \in Failures}

ErrorResult(msg) == [kind |-> "error", error |-> msg, prediction |-> NoPayload]

\* A unit that starts its first attempt whatever the names are: C24 tells
\* it from the code's
UnitStartUnchecked(u, first_name, last_name) == [u EXCEPT !.st = "calling"]

\* Lines 52-57: the early returns, else the first attempt is started.
UnitStart(u, first_name, last_name) ==
    IF first_name = "" \/ last_name = ""
    THEN [u EXCEPT !.st = "done",
                   !.res = ErrorResult("Missing first name or last name.")]
    ELSE [u EXCEPT !.st = "calling"]

\* A retry loop that never returns from its last failed attempt but sleeps
\* and falls through to line 117: C3 tells it from the code's
UnitCallReturnsFallThrough(u, out) ==
    IF out.ok
    THEN [u EXCEPT !.st = "done", !.attempt = 0,
                   !.res = [kind |-> "prediction", error |-> "none",
                            prediction |-> out.payload]]
    ELSE [u EXCEPT !.st = "sleeping",
                   !.delay = RETRY_DELAY_SECONDS * (u.attempt + 1)]

\* A retry loop whose back-off does not grow with the attempt: C31 tells it
\* from the code's
UnitCallReturnsFlatDelay(u, out) ==
    IF out.ok
    THEN [u EXCEPT !.st = "done", !.attempt = 0,
                   !.res = [kind |-> "prediction", error |-> "none",
                            prediction |-> out.payload]]
    ELSE IF u.attempt < RETRY_ATTEMPTS - 1
    THEN [u EXCEPT !.st = "sleeping", !.delay = RETRY_DELAY_SECONDS]
    ELSE [u EXCEPT !.st = "done", !.attempt = 0, !.res = ErrorResult(out.error)]

\* Lines 59-114: the awaited call returns with outcome out.
UnitCallReturns(u, out) ==
    IF out.ok
    THEN [u EXCEPT !.st = "done", !.attempt = 0,
                   !.res = [kind |-> "prediction", error |-> "none",
                            prediction |-> out.payload]]
    ELSE IF u.attempt < RETRY_ATTEMPTS - 1
    THEN [u EXCEPT !.st = "sleeping",
                   !.delay = RETRY_DELAY_SECONDS * (u.attempt + 1)]
    ELSE [u EXCEPT !.st = "done", !.attempt = 0, !.res = ErrorResult(out.error)]

\* Line 116 returns and the for loop of line 57 goes on; line 117 when the
\* range is used up.
UnitWakes(u) ==
    IF u.attempt + 1 < RETRY_ATTEMPTS
    THEN [u EXCEPT !.st = "calling", !.attempt = @ + 1, !.delay = 0]
    ELSE [u EXCEPT !.st = "done", !.attempt = 0, !.delay = 0,
                   !.res = ErrorResult("All retry attempts failed.")]

(***************************************************************************)
(* dbo.MasterItems.  A name is "text", "tab" (white space that LTRIM/RTRIM *)
(* leave and str.strip() removes), "spaces" (empty after LTRIM/RTRIM) or   *)
(* NULL.  Init draws one of three databases.                               *)
(***************************************************************************)
Ids == 1..NumItems

Scenarios == {"fresh", "mixed", "sparse"}

ItemOf(s, id) ==
    CASE s = "fresh" ->
            [FullName |-> "text", Surname |-> "text", g |-> <<>>, l |-> <<>>]
      [] s = "mixed" /\ id % 3 = 1 ->
            [FullName |-> "text", Surname |-> "text", g |-> <<"FEMALE">>, l |-> <<>>]
      [] s = "mixed" /\ id % 3 = 2 ->
            [FullName |-> "tab", Surname |-> "text", g |-> <<>>, l |-> <<>>]
      [] s = "mixed" /\ id % 3 = 0 ->
            [FullName |-> "text", Surname |-> "text", g |-> <<>>, l |-> <<>>]
      [] s = "sparse" /\ id % 3 = 1 ->
            [FullName |-> "text", Surname |-> "text", g |-> <<"FEMALE">>, l |-> <<"English">>]
      [] s = "sparse" /\ id % 3 = 2 ->
            [FullName |-> "spaces", Surname |-> NULL, g |-> <<>>, l |-> <<>>]
      [] OTHER ->
            [FullName |-> "text", Surname |-> "text", g |-> <<>>, l |-> <<"English">>]

VARIABLES
    cfg,                \* the run's configuration: [batch, conc, limited, budget,
                        \* pwd, scenario]; limited = FALSE is a budget of None
    Genders, Languages, \* the destination tables
    pc,                 \* the driver's position
    last_processed_id,
    cumulative_records_fetched_for_processing,
    total_api_predictions_successful,
    total_api_errors,
    records_to_fetch_this_batch,
    conn, fetch_cursor, \* "none", "open" or "closed"
    rows_in_current_batch,
    tasks,              \* the item ids of the coroutine objects, in order
    units,              \* the unit of each task
    i,                  \* the chunk loop's index (line 328)
    api_results,
    genders_to_upsert, languages_to_upsert,
    faults,             \* store faults injected so far
    hist                \* history of the run, read by the properties only

VARIABLES lab

driverVars == <<cfg, Genders, Languages, pc, last_processed_id,
                cumulative_records_fetched_for_processing,
                total_api_predictions_successful, total_api_errors,
                records_to_fetch_this_batch, conn, fetch_cursor,
                rows_in_current_batch, tasks, units, i, api_results,
                genders_to_upsert, languages_to_upsert, faults, hist>>

vars == <<driverVars, lab>>

DB_BATCH_SIZE == cfg.batch
API_CALL_CONCURRENCY == cfg.conc
MAX_TOTAL_RECORDS_TO_PROCESS == cfg.budget
BudgetIsNone == ~cfg.limited
MasterItems == [id \in Ids |-> ItemOf(cfg.scenario, id)]

\* A page size that ignores what is left of the budget: C11 tells it from
\* the code's
MinFirst(a, b) == a

Min(a, b) == IF a < b THEN a ELSE b

\* LTRIM(RTRIM(x)) <> '' with x IS NOT NULL
SqlNonBlank(name) == name # NULL /\ name # "spaces"

\* x.strip() if isinstance(x, str) else ""
PyStrip(name) == IF name = "text" THEN "text" ELSE ""

\* A page query that leaves out the rows another instance has fetched and
\* not yet written: C29 tells it from the code's
EligibleUnclaimed(id, watermark) ==
    /\ Genders[id] = <<>> \/ Languages[id] = <<>>
    /\ id > watermark
    /\ SqlNonBlank(MasterItems[id].FullName)
    /\ SqlNonBlank(MasterItems[id].Surname)
    /\ lab.phase = "two" =>
          \A p \in DOMAIN lab.inst :
             \A k \in DOMAIN lab.inst[p].rows : lab.inst[p].rows[k] # id

\* A page query that selects only the rows with neither attribute: C36
\* tells it from the code's
EligibleBothMissing(id, watermark) ==
    /\ Genders[id] = <<>> /\ Languages[id] = <<>>
    /\ id > watermark
    /\ SqlNonBlank(MasterItems[id].FullName)
    /\ SqlNonBlank(MasterItems[id].Surname)

\* The WHERE clause of the page query (lines 284-290)
Eligible(id, watermark) ==
    /\ Genders[id] = <<>> \/ Languages[id] = <<>>
    /\ id > watermark
    /\ SqlNonBlank(MasterItems[id].FullName)
    /\ SqlNonBlank(MasterItems[id].Surname)

\* SELECT TOP (n) ... ORDER BY mi.Id ASC, starting the scan at key id
RECURSIVE SelectTop(_, _, _)
SelectTop(n, watermark, id) ==
    IF n <= 0 \/ id > NumItems THEN <<>>
    ELSE IF Eligible(id, watermark)
    THEN <<id>> \o SelectTop(n - 1, watermark, id + 1)
    ELSE SelectTop(n, watermark, id + 1)

FetchPage(n, watermark) == SelectTop(n, watermark, 1)

\* Lines 305-314: one coroutine object per row whose names are not blank
RECURSIVE BuildTasks(_)
BuildTasks(rows) ==
    IF rows = <<>> THEN <<>>
    ELSE LET id == Head(rows)
         IN  IF PyStrip(MasterItems[id].FullName) = "" \/ PyStrip(MasterItems[id].Surname) = ""
             THEN BuildTasks(Tail(rows))
             ELSE <<id>> \o BuildTasks(Tail(rows))

Last(s) == s[Len(s)]

(***************************************************************************)
(* process_master_items_in_batches_async.  pc is the driver's position:    *)
(*   "start"        before line 227                                        *)
(*   "loop"         the head of the while loop (line 238)                  *)
(*   "connect"      get_db_connection (line 261)                           *)
(*   "sleep60"      the sleep of line 264                                  *)
(*   "fetch"        the page query (lines 271-295)                         *)
(*   "sleep_skip"   the sleep of line 322 (no task was created)            *)
(*   "dispatch"     the head of the chunk loop (line 328)                  *)
(*   "gather"       asyncio.gather of one chunk is awaited (line 330)      *)
(*   "sleep_chunk"  the sleep of line 333                                  *)
(*   "reconcile"    lines 337-359                                          *)
(*   "upsert_g", "upsert_l"   lines 361-366                                *)
(*   "advance"      line 368                                               *)
(*   "sleep30", "sleep10"     the sleeps of the except clauses             *)
(*   "sleep_batch"  the sleep of line 393                                  *)
(*   "done"         after the loop (line 395)                              *)
(*   "returned"     the return of line 229                                 *)
(*   "crashed"      an exception left the function                         *)
(* batch_number and the time stamps are only printed and are left out.     *)
(***************************************************************************)
Configs ==
    {[batch |-> b, conc |-> c, limited |-> TRUE, budget |-> n, pwd |-> p, scenario |-> s] :
        b \in 1..MaxBatch, c \in 1..MaxConc, n \in -1..MaxBudget,
        p \in BOOLEAN, s \in Scenarios}
    \cup
    {[batch |-> b, conc |-> c, limited |-> FALSE, budget |-> 0, pwd |-> p, scenario |-> s] :
        b \in 1..MaxBatch, c \in 1..MaxConc, p \in BOOLEAN, s \in Scenarios}

\* With no budget the counter is only printed (lines 375 and 398): the model
\* keeps it up to CountCap.
Counted(c, n) ==
    IF BudgetIsNone /\ c + n > CountCap THEN CountCap ELSE c + n

\* hist: wm0 the watermark when the iteration began; G0, L0 the tables when
\* the page was fetched; gOut, lOut the outcome of the page's upserts; retry
\* the rows of a page that failed after its fetch and before any write;
\* refetchOf the value of retry when the last page was fetched; fetched the
\* ids fetched so far; dbErr the iteration ended with a failed connection or
\* a raised pyodbc.Error; exit why the run ended; sent the number of units
\* whose coroutine was started so far (kept up to CountCap).
Init ==
    /\ cfg \in Configs
    /\ Genders = [id \in Ids |-> ItemOf(cfg.scenario, id).g]
    /\ Languages = [id \in Ids |-> ItemOf(cfg.scenario, id).l]
    /\ pc = "start"
    /\ last_processed_id = 0
    /\ cumulative_records_fetched_for_processing = 0
    /\ total_api_predictions_successful = 0
    /\ total_api_errors = 0
    /\ records_to_fetch_this_batch = 0
    /\ conn = "none"
    /\ fetch_cursor = "none"
    /\ rows_in_current_batch = <<>>
    /\ tasks = <<>>
    /\ units = <<>>
    /\ i = 0
    /\ api_results = <<>>
    /\ genders_to_upsert = <<>>
    /\ languages_to_upsert = <<>>
    /\ faults = 0
    /\ hist = [wm0 |-> 0, G0 |-> Genders, L0 |-> Languages, gOut |-> "none",
               lOut |-> "none", retry |-> <<>>, refetchOf |-> <<>>,
               fetched |-> {}, dbErr |-> FALSE, exit |-> "none", sent |-> 0]
    /\ lab = [phase |-> "off"]

\* Lines 227-235
Start ==
    /\ pc = "start"
    /\ IF cfg.limited /\ MAX_TOTAL_RECORDS_TO_PROCESS <= 0
       THEN pc' = "returned" /\ hist' = [hist EXCEPT !.exit = "nonpositive"]
       ELSE pc' = "loop" /\ hist' = hist
    /\ UNCHANGED <<cfg, Genders, Languages, last_processed_id,
                   cumulative_records_fetched_for_processing,
                   total_api_predictions_successful, total_api_errors,
                   records_to_fetch_this_batch, conn, fetch_cursor,
                   rows_in_current_batch, tasks, units, i, api_results,
                   genders_to_upsert, languages_to_upsert, faults, lab>>

\* Lines 238-259: the budget check and the size of the next page
LoopHead ==
    /\ pc = "loop"
    /\ LET n == IF cfg.limited
                THEN Min(DB_BATCH_SIZE, MAX_TOTAL_RECORDS_TO_PROCESS
                                        - cumulative_records_fetched_for_processing)
                ELSE DB_BATCH_SIZE
       IN  IF cfg.limited /\ cumulative_records_fetched_for_processing
                                >= MAX_TOTAL_RECORDS_TO_PROCESS
           THEN /\ pc' = "done"
                /\ hist' = [hist EXCEPT !.exit = "budget"]
                /\ UNCHANGED records_to_fetch_this_batch
           ELSE IF n <= 0
           THEN /\ pc' = "done"
                /\ hist' = [hist EXCEPT !.exit = "safeguard"]
                /\ records_to_fetch_this_batch' = n
           ELSE /\ pc' = "connect"
                /\ hist' = [hist EXCEPT !.wm0 = last_processed_id, !.dbErr = FALSE,
                                        !.gOut = "none", !.lOut = "none",
                                        !.refetchOf = <<>>]
                /\ records_to_fetch_this_batch' = n
    /\ UNCHANGED <<cfg, Genders, Languages, last_processed_id,
                   cumulative_records_fetched_for_processing,
                   total_api_predictions_successful, total_api_errors,
                   conn, fetch_cursor, rows_in_current_batch, tasks, units, i,
                   api_results, genders_to_upsert, languages_to_upsert, faults, lab>>

\* Lines 121-141 and 261-269: get_db_connection returns None when DB_PASSWORD
\* is not set or pyodbc.connect raises.
Connect ==
    /\ pc = "connect"
    /\ \/ /\ cfg.pwd
          /\ conn' = "open"
          /\ fetch_cursor' = "none"
          /\ rows_in_current_batch' = <<>>
          /\ pc' = "fetch"
          /\ UNCHANGED <<faults, hist>>
       \/ /\ ~cfg.pwd \/ faults < MaxFaults
          /\ conn' = "none"
          /\ pc' = "sleep60"
          /\ faults' = IF cfg.pwd THEN faults + 1 ELSE faults
          /\ hist' = [hist EXCEPT !.dbErr = TRUE]
          /\ UNCHANGED <<fetch_cursor, rows_in_current_batch>>
    /\ UNCHANGED <<cfg, Genders, Languages, last_processed_id,
                   cumulative_records_fetched_for_processing,
                   total_api_predictions_successful, total_api_errors,
                   records_to_fetch_this_batch, tasks, units, i, api_results,
                   genders_to_upsert, languages_to_upsert, lab>>

\* Lines 264-265: the sleep returns, continue
ConnectCooldown ==
    /\ pc = "sleep60"
    /\ pc' = "loop"
    /\ UNCHANGED <<cfg, Genders, Languages, last_processed_id,
                   cumulative_records_fetched_for_processing,
                   total_api_predictions_successful, total_api_errors,
                   records_to_fetch_this_batch, conn, fetch_cursor,
                   rows_in_current_batch, tasks, units, i, api_results,
                   genders_to_upsert, languages_to_upsert, faults, hist, lab>>

\* Lines 271-323: the page query, the counter, the coroutine objects; the
\* break of line 299 and the continue of line 323 pass through the finally
\* clause.
Fetch ==
    /\ pc = "fetch"
    /\ \/ /\ faults < MaxFaults
          /\ faults' = faults + 1
          /\ fetch_cursor' = "open"
          /\ pc' = "sleep30"
          /\ hist' = [hist EXCEPT !.dbErr = TRUE]
          /\ UNCHANGED <<conn, rows_in_current_batch, last_processed_id,
                         cumulative_records_fetched_for_processing, tasks, units,
                         i, api_results, genders_to_upsert, languages_to_upsert>>
       \/ LET rows == FetchPage(records_to_fetch_this_batch, last_processed_id)
              made == BuildTasks(rows)
          IN  /\ rows_in_current_batch' = rows
              /\ faults' = faults
              /\ IF rows = <<>>
                 THEN /\ pc' = "done"
                      /\ hist' = [hist EXCEPT !.exit = "empty"]
                      /\ fetch_cursor' = "closed"
                      /\ conn' = "closed"
                      /\ UNCHANGED <<last_processed_id,
                                     cumulative_records_fetched_for_processing,
                                     tasks, units, i, api_results,
                                     genders_to_upsert, languages_to_upsert>>
                 ELSE /\ cumulative_records_fetched_for_processing' =
                            Counted(cumulative_records_fetched_for_processing, Len(rows))
                      /\ hist' = [hist EXCEPT !.G0 = Genders, !.L0 = Languages,
                                              !.refetchOf = hist.retry, !.retry = <<>>,
                                              !.fetched = @ \cup {rows[k] : k \in DOMAIN rows}]
                      /\ tasks' = made
                      /\ units' = [k \in DOMAIN made |-> NewUnit]
                      /\ i' = 0
                      /\ api_results' = <<>>
                      /\ genders_to_upsert' = <<>>
                      /\ languages_to_upsert' = <<>>
                      /\ IF made = <<>>
                         THEN /\ last_processed_id' = Last(rows)
                              /\ fetch_cursor' = "closed"
                              /\ conn' = "closed"
                              /\ pc' = IF INTER_BATCH_DELAY_SECONDS > 0
                                       THEN "sleep_skip" ELSE "skip_continue"
                         ELSE /\ fetch_cursor' = "open"
                              /\ conn' = conn
                              /\ pc' = "dispatch"
                              /\ UNCHANGED last_processed_id
    /\ UNCHANGED <<cfg, Genders, Languages, total_api_predictions_successful,
                   total_api_errors, records_to_fetch_this_batch, lab>>

\* Line 323 and the finally clause (lines 384-389): the cursor and the
\* connection were closed by lines 319-320; pyodbc is not part of the
\* sources, and a second close() either raises pyodbc.ProgrammingError, which
\* leaves the function, or does nothing.
SkipContinue ==
    /\ pc \in {"sleep_skip", "skip_continue"}
    /\ \/ pc' = "loop"
       \/ pc' = "crashed"
    /\ UNCHANGED <<cfg, Genders, Languages, last_processed_id,
                   cumulative_records_fetched_for_processing,
                   total_api_predictions_successful, total_api_errors,
                   records_to_fetch_this_batch, conn, fetch_cursor,
                   rows_in_current_batch, tasks, units, i, api_results,
                   genders_to_upsert, languages_to_upsert, faults, hist, lab>>

\* A chunk that takes every remaining task of the page, whatever the
\* ceiling: C2 tells it from the code's
ChunkToEnd == {k \in DOMAIN tasks : i < k}

\* The task positions of the chunk tasks[i:i+API_CALL_CONCURRENCY]
Chunk == {k \in DOMAIN tasks : i < k /\ k <= i + API_CALL_CONCURRENCY}

\* Units started and not yet settled
InFlight == {k \in DOMAIN units : units[k].st \in {"calling", "sleeping"}}

\* Lines 328-330: asyncio.gather schedules every coroutine of the chunk
Dispatch ==
    /\ pc = "dispatch"
    /\ units' = [k \in DOMAIN units |->
                    IF k \in Chunk
                    THEN UnitStart(units[k], PyStrip(MasterItems[tasks[k]].FullName),
                                   PyStrip(MasterItems[tasks[k]].Surname))
                    ELSE units[k]]
    /\ pc' = "gather"
    /\ hist' = [hist EXCEPT !.sent = IF @ + Cardinality(Chunk) > CountCap
                                      THEN CountCap ELSE @ + Cardinality(Chunk)]
    /\ UNCHANGED <<cfg, Genders, Languages, last_processed_id,
                   cumulative_records_fetched_for_processing,
                   total_api_predictions_successful, total_api_errors,
                   records_to_fetch_this_batch, conn, fetch_cursor,
                   rows_in_current_batch, tasks, i, api_results,
                   genders_to_upsert, languages_to_upsert, faults, lab>>

\* One unit's awaited API call comes back (lines 60-114)
UnitCall ==
    /\ pc = "gather"
    /\ \E k \in DOMAIN units, out \in Outcomes :
          /\ units[k].st = "calling"
          /\ units' = [units EXCEPT ![k] = UnitCallReturns(units[k], out)]
    /\ UNCHANGED <<cfg, Genders, Languages, pc, last_processed_id,
                   cumulative_records_fetched_for_processing,
                   total_api_predictions_successful, total_api_errors,
                   records_to_fetch_this_batch, conn, fetch_cursor,
                   rows_in_current_batch, tasks, i, api_results,
                   genders_to_upsert, languages_to_upsert, faults, hist, lab>>

\* One unit's back-off sleep returns (line 116)
UnitWake ==
    /\ pc = "gather"
    /\ \E k \in DOMAIN units :
          /\ units[k].st = "sleeping"
          /\ units' = [units EXCEPT ![k] = UnitWakes(units[k])]
    /\ UNCHANGED <<cfg, Genders, Languages, pc, last_processed_id,
                   cumulative_records_fetched_for_processing,
                   total_api_predictions_successful, total_api_errors,
                   records_to_fetch_this_batch, conn, fetch_cursor,
                   rows_in_current_batch, tasks, i, api_results,
                   genders_to_upsert, languages_to_upsert, faults, hist, lab>>

\* The returned dictionary of task k
ResultOf(k) == [item_id |-> tasks[k], kind |-> units[k].res.kind,
                error |-> units[k].res.error, prediction |-> units[k].res.prediction]

\* A gather that hands back a chunk's results last unit first: C32 tells it
\* from the code's
GatheredBackwards(lo, hi) ==
    IF lo > hi THEN <<>> ELSE [k \in 1..(hi - lo + 1) |-> ResultOf(hi - k + 1)]

\* The results of task positions lo..hi, in submission order
RECURSIVE Gathered(_, _)
Gathered(lo, hi) ==
    IF lo > hi THEN <<>> ELSE <<ResultOf(lo)>> \o Gathered(lo + 1, hi)

\* A gather that returns without waiting for its units: C28 tells it from
\* the code's
ChunkSettledAlways == TRUE

\* Line 330: asyncio.gather(*chunk) is complete when every unit of the chunk
\* has returned
ChunkSettled == \A k \in Chunk : units[k].st = "done"

\* Lines 330-333: gather returns when every unit of the chunk has returned
GatherDone ==
    /\ pc = "gather"
    /\ ChunkSettled
    /\ api_results' = api_results
                        \o Gathered(i + 1, Min(i + API_CALL_CONCURRENCY, Len(tasks)))
    /\ pc' = IF Len(tasks) > API_CALL_CONCURRENCY /\ i + API_CALL_CONCURRENCY < Len(tasks)
             THEN "sleep_chunk"
             ELSE "reconcile"
    /\ UNCHANGED <<cfg, Genders, Languages, last_processed_id,
                   cumulative_records_fetched_for_processing,
                   total_api_predictions_successful, total_api_errors,
                   records_to_fetch_this_batch, conn, fetch_cursor,
                   rows_in_current_batch, tasks, units, i,
                   genders_to_upsert, languages_to_upsert, faults, hist, lab>>

\* Line 333 returns; the next value of range(0, len(tasks), API_CALL_CONCURRENCY)
ChunkPause ==
    /\ pc = "sleep_chunk"
    /\ i' = i + API_CALL_CONCURRENCY
    /\ pc' = "dispatch"
    /\ UNCHANGED <<cfg, Genders, Languages, last_processed_id,
                   cumulative_records_fetched_for_processing,
                   total_api_predictions_successful, total_api_errors,
                   records_to_fetch_this_batch, conn, fetch_cursor,
                   rows_in_current_batch, tasks, units, api_results,
                   genders_to_upsert, languages_to_upsert, faults, hist, lab>>

\* A reconciliation that drops the whole page's predictions when one unit
\* returned an error: C13 tells it from the code's
ToUpsertUnlessError(results, f) ==
    IF \E k \in DOMAIN results : results[k].kind = "error"
    THEN <<>>
    ELSE LET kept == SelectSeq(results, LAMBDA r : r.prediction[f] # NULL)
         IN  [k \in DOMAIN kept |-> <<kept[k].item_id, kept[k].prediction[f]>>]

\* Lines 342-353: the (item_id, value) pairs of field f of the predictions
RECURSIVE ToUpsert(_, _)
ToUpsert(results, f) ==
    IF results = <<>> THEN <<>>
    ELSE LET r == Head(results)
         IN  IF r.kind = "prediction" /\ r.prediction[f] # NULL
             THEN <<(<<r.item_id, r.prediction[f]>>)>> \o ToUpsert(Tail(results), f)
             ELSE ToUpsert(Tail(results), f)

CountKind(results, kind) ==
    Cardinality({k \in DOMAIN results : results[k].kind = kind})

\* Lines 337-359.  prediction.get raises AttributeError when the JSON is not
\* an object; the except clause of line 381 catches it.
Reconcile ==
    /\ pc = "reconcile"
    /\ IF \E k \in DOMAIN api_results :
              api_results[k].kind = "prediction" /\ ~api_results[k].prediction.dict
       THEN /\ pc' = "sleep10"
            /\ hist' = [hist EXCEPT !.retry = rows_in_current_batch]
            /\ UNCHANGED <<genders_to_upsert, languages_to_upsert,
                           total_api_predictions_successful, total_api_errors>>
       ELSE /\ pc' = "upsert_g"
            /\ genders_to_upsert' = ToUpsert(api_results, "gender")
            /\ languages_to_upsert' = ToUpsert(api_results, "language")
            /\ total_api_predictions_successful' =
                   total_api_predictions_successful + CountKind(api_results, "prediction")
            /\ total_api_errors' = total_api_errors + CountKind(api_results, "error")
            /\ hist' = hist
    /\ UNCHANGED <<cfg, Genders, Languages, last_processed_id,
                   cumulative_records_fetched_for_processing,
                   records_to_fetch_this_batch, conn, fetch_cursor,
                   rows_in_current_batch, tasks, units, i, api_results, faults, lab>>

\* The store faults that can still be injected into an upsert of list
UpsertFaults(list) ==
    IF list # <<>> /\ faults < MaxFaults
    THEN {"none", "error", "rollback_raises"}
    ELSE {"none"}

\* Lines 361-363
UpsertGenders ==
    /\ pc = "upsert_g"
    /\ \E f \in UpsertFaults(genders_to_upsert) :
          LET r == batch_upsert_genders(Genders, genders_to_upsert, f)
          IN  /\ Genders' = r.table
              /\ faults' = IF f = "none" THEN faults ELSE faults + 1
              /\ IF r.outcome = "raised"
                 THEN /\ pc' = "sleep30"
                      /\ hist' = [hist EXCEPT !.gOut = r.outcome, !.dbErr = TRUE,
                                              !.retry = rows_in_current_batch]
                 ELSE /\ pc' = "upsert_l"
                      /\ hist' = [hist EXCEPT !.gOut = r.outcome]
    /\ UNCHANGED <<cfg, Languages, last_processed_id,
                   cumulative_records_fetched_for_processing,
                   total_api_predictions_successful, total_api_errors,
                   records_to_fetch_this_batch, conn, fetch_cursor,
                   rows_in_current_batch, tasks, units, i, api_results,
                   genders_to_upsert, languages_to_upsert, lab>>

\* Lines 364-366
UpsertLanguages ==
    /\ pc = "upsert_l"
    /\ \E f \in UpsertFaults(languages_to_upsert) :
          LET r == batch_upsert_languages(Languages, languages_to_upsert, f)
          IN  /\ Languages' = r.table
              /\ faults' = IF f = "none" THEN faults ELSE faults + 1
              /\ IF r.outcome = "raised"
                 THEN /\ pc' = "sleep30"
                      /\ hist' = [hist EXCEPT !.lOut = r.outcome, !.dbErr = TRUE,
                                              !.retry = IF hist.gOut = "committed"
                                                        THEN <<>>
                                                        ELSE rows_in_current_batch]
                 ELSE /\ pc' = "advance"
                      /\ hist' = [hist EXCEPT !.lOut = r.outcome]
    /\ UNCHANGED <<cfg, Genders, last_processed_id,
                   cumulative_records_fetched_for_processing,
                   total_api_predictions_successful, total_api_errors,
                   records_to_fetch_this_batch, conn, fetch_cursor,
                   rows_in_current_batch, tasks, units, i, api_results,
                   genders_to_upsert, languages_to_upsert, lab>>

\* The iteration's locals are dead once it ends (each is assigned again
\* before it is read): the model resets them.
PageLocalsDropped ==
    /\ tasks' = <<>>
    /\ units' = <<>>
    /\ i' = 0
    /\ api_results' = <<>>
    /\ genders_to_upsert' = <<>>
    /\ languages_to_upsert' = <<>>

\* Lines 368-375, then the finally clause and the test of line 391
Advance ==
    /\ pc = "advance"
    /\ last_processed_id' = Last(rows_in_current_batch)
    /\ fetch_cursor' = "closed"
    /\ conn' = "closed"
    /\ pc' = IF INTER_BATCH_DELAY_SECONDS > 0 /\ rows_in_current_batch # <<>>
             THEN "sleep_batch" ELSE "loop"
    /\ PageLocalsDropped
    /\ UNCHANGED <<cfg, Genders, Languages,
                   cumulative_records_fetched_for_processing,
                   total_api_predictions_successful, total_api_errors,
                   records_to_fetch_this_batch, rows_in_current_batch,
                   faults, hist, lab>>

\* Lines 378-389: the sleep of an except clause returns, then the finally
\* clause and the test of line 391
ErrorCooldown ==
    /\ pc \in {"sleep30", "sleep10"}
    /\ fetch_cursor' = "closed"
    /\ conn' = "closed"
    /\ pc' = IF INTER_BATCH_DELAY_SECONDS > 0 /\ rows_in_current_batch # <<>>
             THEN "sleep_batch" ELSE "loop"
    /\ PageLocalsDropped
    /\ UNCHANGED <<cfg, Genders, Languages, last_processed_id,
                   cumulative_records_fetched_for_processing,
                   total_api_predictions_successful, total_api_errors,
                   records_to_fetch_this_batch, rows_in_current_batch,
                   faults, hist, lab>>

\* Line 393 returns
BatchPause ==
    /\ pc = "sleep_batch"
    /\ pc' = "loop"
    /\ UNCHANGED <<cfg, Genders, Languages, last_processed_id,
                   cumulative_records_fetched_for_processing,
                   total_api_predictions_successful, total_api_errors,
                   records_to_fetch_this_batch, conn, fetch_cursor,
                   rows_in_current_batch, tasks, units, i, api_results,
                   genders_to_upsert, languages_to_upsert, faults, hist, lab>>

Next ==
    \/ Start
    \/ LoopHead
    \/ Connect
    \/ ConnectCooldown
    \/ Fetch
    \/ SkipContinue
    \/ Dispatch
    \/ UnitCall
    \/ UnitWake
    \/ GatherDone
    \/ ChunkPause
    \/ Reconcile
    \/ UpsertGenders
    \/ UpsertLanguages
    \/ Advance
    \/ ErrorCooldown
    \/ BatchPause

Spec == Init /\ [][Next]_vars

\* The event loop runs whatever is ready: no step of the driver or of a unit
\* is postponed for ever.
FairSpec == Spec /\ WF_vars(Next)

(***************************************************************************)
(* Interruption.  asyncio.run (line 411) cancels the driver task on SIGINT: *)
(* CancelledError is raised at the await where the driver is suspended,    *)
(* passes the except clauses of lines 378 and 381 (it is no Exception),    *)
(* runs the finally clause and ends the run at line 412.                   *)
(***************************************************************************)

\* As if the two upserts were awaited as well: C14 tells it from the code's
SuspensionPointsWithUpserts ==
    {"sleep60", "sleep_skip", "gather", "sleep_chunk", "sleep30", "sleep10",
     "sleep_batch", "upsert_g", "upsert_l"}

\* The awaits of the driver: lines 264, 322, 330 (with the awaits of the
\* units inside it), 333, 380, 383 and 393
SuspensionPoints ==
    {"sleep60", "sleep_skip", "gather", "sleep_chunk", "sleep30", "sleep10",
     "sleep_batch"}

Interrupt ==
    /\ pc \in SuspensionPoints
    /\ \/ pc' = "interrupted"
       \/ pc = "sleep_skip" /\ pc' = "crashed"
    /\ conn' = IF conn = "open" THEN "closed" ELSE conn
    /\ fetch_cursor' = IF fetch_cursor = "open" THEN "closed" ELSE fetch_cursor
    /\ hist' = [hist EXCEPT !.exit = "interrupt"]
    /\ PageLocalsDropped
    /\ UNCHANGED <<cfg, Genders, Languages, last_processed_id,
                   cumulative_records_fetched_for_processing,
                   total_api_predictions_successful, total_api_errors,
                   records_to_fetch_this_batch, rows_in_current_batch,
                   faults, lab>>

InterruptNext == Next \/ Interrupt

InterruptSpec == Init /\ [][InterruptNext]_vars

(***************************************************************************)
(* The upsert bench: a destination table and a list drawn from bounded     *)
(* sets, and batch_upsert_genders applied to them twice.                   *)
(***************************************************************************)
LabIds == 1..LabItems

LabRows == {<<>>} \cup {<<d>> : d \in GenderValues \cup {NULL}}

LabTables == [LabIds -> LabRows]

LabPairs == {<<id, d>> : id \in LabIds, d \in GenderValues}

RECURSIVE SeqsUpTo(_, _)
SeqsUpTo(S, n) ==
    IF n = 0 THEN {<<>>}
    ELSE LET shorter == SeqsUpTo(S, n - 1)
         IN  shorter \cup {Append(s, x) : s \in {t \in shorter : Len(t) = n - 1}, x \in S}

LabLists == SeqsUpTo(LabPairs, MaxList)

LabOff == [phase |-> "off"]

\* The driver does not run in the bench.
DriverOff ==
    /\ cfg = [batch |-> 1, conc |-> 1, limited |-> FALSE, budget |-> 0,
              pwd |-> TRUE, scenario |-> "fresh"]
    /\ Genders = [id \in Ids |-> <<>>]
    /\ Languages = [id \in Ids |-> <<>>]
    /\ pc = "off"
    /\ last_processed_id = 0
    /\ cumulative_records_fetched_for_processing = 0
    /\ total_api_predictions_successful = 0
    /\ total_api_errors = 0
    /\ records_to_fetch_this_batch = 0
    /\ conn = "none"
    /\ fetch_cursor = "none"
    /\ rows_in_current_batch = <<>>
    /\ tasks = <<>>
    /\ units = <<>>
    /\ i = 0
    /\ api_results = <<>>
    /\ genders_to_upsert = <<>>
    /\ languages_to_upsert = <<>>
    /\ faults = 0
    /\ hist = [exit |-> "none"]

LabInit ==
    /\ DriverOff
    /\ \E t \in LabTables, l \in LabLists :
          lab = [phase |-> "init", list |-> l, table0 |-> t,
                 first |-> LabOff, second |-> LabOff]

LabApplyFirst ==
    /\ lab.phase = "init"
    /\ \E f \in {"none", "error"} :
        lab' = [lab EXCEPT !.phase = "once",
                           !.first = batch_upsert_genders(lab.table0, lab.list, f)]
    /\ UNCHANGED driverVars

LabApplySecond ==
    /\ lab.phase = "once"
    /\ \E f \in {"none", "error"} :
        lab' = [lab EXCEPT !.phase = "twice",
                           !.second = batch_upsert_genders(lab.first.table, lab.list, f)]
    /\ UNCHANGED driverVars

UpsertNext == LabApplyFirst \/ LabApplySecond

UpsertSpec == LabInit /\ [][UpsertNext]_vars

(***************************************************************************)
(* The unit bench: one call of get_person_prediction_async with names      *)
(* drawn from a bounded set; outs records the outcome of every API call    *)
(* made, sleeps the argument of every back-off sleep taken.                *)
(***************************************************************************)
LabNames == {"", "Thandi", "Sipho"}

UnitInit ==
    /\ DriverOff
    /\ \E f \in LabNames, l \in LabNames :
          lab = [phase |-> "unit", unit |-> NewUnit, first |-> f, last |-> l,
                 outs |-> <<>>, sleeps |-> <<>>]

LabUnitStart ==
    /\ lab.unit.st = "new"
    /\ lab' = [lab EXCEPT !.unit = UnitStart(lab.unit, lab.first, lab.last)]
    /\ UNCHANGED driverVars

LabUnitCall ==
    /\ lab.unit.st = "calling"
    /\ \E out \in Outcomes :
          lab' = [lab EXCEPT !.unit = UnitCallReturns(lab.unit, out),
                             !.outs = Append(@, out)]
    /\ UNCHANGED driverVars

LabUnitWake ==
    /\ lab.unit.st = "sleeping"
    /\ lab' = [lab EXCEPT !.unit = UnitWakes(lab.unit),
                          !.sleeps = Append(@, lab.unit.delay)]
    /\ UNCHANGED driverVars

UnitNext == LabUnitStart \/ LabUnitCall \/ LabUnitWake

UnitSpec == UnitInit /\ [][UnitNext]_vars

(***************************************************************************)
(* Birth dates.  An identifier (MasterItems.IDNumber) is a sequence of      *)
(* characters; <<>> stands for NULL and for the empty string, which every   *)
(* reader treats alike.  A date is [y, m, d]; NoDate is None / NULL.        *)
(***************************************************************************)
Digits == {"0", "1", "2", "3", "4", "5", "6", "7", "8", "9"}

DigitVal(c) ==
    CASE c = "0" -> 0 [] c = "1" -> 1 [] c = "2" -> 2 [] c = "3" -> 3
      [] c = "4" -> 4 [] c = "5" -> 5 [] c = "6" -> 6 [] c = "7" -> 7
      [] c = "8" -> 8 [] c = "9" -> 9

DigitChar(n) == CHOOSE c \in Digits : DigitVal(c) = n

\* int(s) for a string of digits
RECURSIVE IntOf(_)
IntOf(s) ==
    IF s = <<>> THEN 0
    ELSE 10 * IntOf(SubSeq(s, 1, Len(s) - 1)) + DigitVal(s[Len(s)])

\* The two-digit string of n in 0..99 ('%02d')
TwoChars(n) == <<DigitChar(n \div 10), DigitChar(n % 10)>>

NoDate == [y |-> 0, m |-> 0, d |-> 0]

IsLeap(y) == y % 4 = 0 /\ (y % 100 # 0 \/ y % 400 = 0)

DaysIn(y, m) ==
    IF m = 2 THEN (IF IsLeap(y) THEN 29 ELSE 28)
    ELSE IF m \in {4, 6, 9, 11} THEN 30 ELSE 31

\* A date constructor that accepts every month and day: C17 tells it from
\* the code's
ValidDateAny(y, m, d) == TRUE

\* datetime.date(y, m, d) does not raise ValueError; TRY_CONVERT(date, 'yyyymmdd')
\* is not NULL
ValidDate(y, m, d) == y >= 1 /\ m \in 1..12 /\ d >= 1 /\ d <= DaysIn(y, m)

\* get_birthdate_by_masterid.py, line 34: the first run of six digits
RECURSIVE SixFrom(_, _)
SixFrom(idnum, k) ==
    IF k + 5 > Len(idnum) THEN <<>>
    ELSE IF \A j \in k..(k + 5) : idnum[j] \in Digits
    THEN SubSeq(idnum, k, k + 5)
    ELSE SixFrom(idnum, k + 1)

first_six(idnum) == SixFrom(idnum, 1)

\* A pivot that sends the current year itself to the 1900s: C16 tells it
\* from the code's
CenturyOfInclusive(yy, pivot) == IF yy >= pivot THEN 1900 ELSE 2000

\* Line 40
CenturyOf(yy, pivot) == IF yy > pivot THEN 1900 ELSE 2000

\* Lines 37-44; pivot is date.today().year % 100
derive_dob(six, pivot) ==
    LET yy == IntOf(SubSeq(six, 1, 2))
        mm == IntOf(SubSeq(six, 3, 4))
        dd == IntOf(SubSeq(six, 5, 6))
        century == CenturyOf(yy, pivot)
    IN  IF ValidDate(century + yy, mm, dd)
        THEN [y |-> century + yy, m |-> mm, d |-> dd]
        ELSE NoDate

\* a > b for two strings of digits of one length, as T-SQL compares strings
StrGreater(a, b) ==
    \E k \in 1..Len(a) :
        /\ DigitVal(a[k]) > DigitVal(b[k])
        /\ \A j \in 1..(k - 1) : a[j] = b[j]

\* LEFT(s, n)
Left(s, n) == SubSeq(s, 1, IF n < Len(s) THEN n ELSE Len(s))

\* IDNumber LIKE '[0-9][0-9][0-9][0-9][0-9][0-9]%'
LikeSixDigits(idnum) == Len(idnum) >= 6 /\ \A j \in 1..6 : idnum[j] \in Digits

\* backfill_birthdates.py, lines 79-81: the CASE expression; yy2 is
\* RIGHT(CONVERT(char(4), YEAR(GETDATE())), 2)
CaseCentury(idnum, yy2) ==
    IF StrGreater(Left(idnum, 2), yy2)
    THEN <<"1", "9">> \o Left(idnum, 6)
    ELSE <<"2", "0">> \o Left(idnum, 6)

\* TRY_CONVERT(date, s) for a string of eight digits
TryConvertDate(s) ==
    LET y == IntOf(SubSeq(s, 1, 4))
        m == IntOf(SubSeq(s, 5, 6))
        d == IntOf(SubSeq(s, 7, 8))
    IN  IF ValidDate(y, m, d) THEN [y |-> y, m |-> m, d |-> d] ELSE NoDate

\* The date the batch backfill computes for an identifier that passes its
\* LIKE filter, NoDate for every other identifier
BackfillDate(idnum, pivot) ==
    IF LikeSixDigits(idnum)
    THEN TryConvertDate(CaseCentury(idnum, TwoChars(pivot)))
    ELSE NoDate

\* sa_id_mask_solver.py, line 29: the year valid_date builds; now2 is
\* datetime.now().strftime("%y")
MaskYear(yy, now2) ==
    IntOf(yy) + (IF IntOf(yy) > IntOf(now2) THEN 1900 ELSE 2000)

\* Lines 27-33
valid_date(yy, mm, dd, now2) == ValidDate(MaskYear(yy, now2), IntOf(mm), IntOf(dd))

(***************************************************************************)
(* The pivot bench: the three century choices applied to one two-digit     *)
(* year and one current two-digit year, on 1 January.                      *)
(***************************************************************************)
MaxTwoDigit == 99

PivotInit ==
    /\ DriverOff
    /\ \E yy \in 0..MaxTwoDigit, p \in 0..MaxTwoDigit :
          lab = [phase |-> "pivot", yy |-> yy, pivot |-> p,
                 py |-> 0, sql |-> 0, mask |-> 0]

PivotDeriveDob ==
    /\ lab.phase = "pivot" /\ lab.py = 0
    /\ lab' = [lab EXCEPT !.py =
                  derive_dob(TwoChars(lab.yy) \o <<"0", "1", "0", "1">>, lab.pivot).y]
    /\ UNCHANGED driverVars

PivotBackfill ==
    /\ lab.phase = "pivot" /\ lab.sql = 0
    /\ lab' = [lab EXCEPT !.sql =
                  BackfillDate(TwoChars(lab.yy) \o <<"0", "1", "0", "1">>, lab.pivot).y]
    /\ UNCHANGED driverVars

PivotValidDate ==
    /\ lab.phase = "pivot" /\ lab.mask = 0
    /\ lab' = [lab EXCEPT !.mask = MaskYear(TwoChars(lab.yy), TwoChars(lab.pivot))]
    /\ UNCHANGED driverVars

PivotNext == PivotDeriveDob \/ PivotBackfill \/ PivotValidDate

PivotSpec == PivotInit /\ [][PivotNext]_vars

(***************************************************************************)
(* The birth-date bench: dbo.MasterItems.IDNumber and dbo.BirthDates, and  *)
(* the three programs that write dbo.BirthDates run in any order.          *)
(*   idnum   IDNumber of every MasterItems row                             *)
(*   bd      dbo.BirthDates by Id: [present, mid (MasterItemId), date,     *)
(*           made (the row was inserted during the run)]                   *)
(*   pivot   the current two-digit year                                    *)
(*   bd0     bd before the last program ran; op that program and its       *)
(*           argument; ins, upd the counts it reported; changed the ids of *)
(*           the change set of a correction pass                           *)
(***************************************************************************)
BirthItems == 2

BackfillBatch == 1

\* Ids of dbo.MasterItems, and one more Id that no MasterItems row has
BirthIds == 1..BirthItems

AbsentId == BirthItems + 1

BirthKeys == 1..AbsentId

SampleIdNumbers ==
    {<<"8", "0", "0", "1", "0", "1", "5">>,      \* 1 January of year 80
     <<"0", "9", "0", "6", "0", "1", "1">>,      \* 1 June of year 09
     <<"1", "0", "0", "2", "2", "9", "1">>,      \* 29 February of year 10
     <<"9", "9", "1", "3", "0", "1", "5">>,      \* month 13
     <<"A", "8", "0", "0", "1", "0", "1">>,      \* the six digits start second
     <<"8", "0", "A", "0", "1", "0", "1">>,      \* no six digits in a row
     <<>>}

BirthPivots == {8, 26}

NoRow == [present |-> FALSE, mid |-> 0, date |-> NoDate, made |-> FALSE]

\* An insert that leaves MasterItemId unset: C19 tells it from the code's
NewRowUnlinked(id, dob) == [present |-> TRUE, mid |-> 0, date |-> dob, made |-> TRUE]

\* INSERT INTO dbo.BirthDates (Id, MasterItemId, BirthDate) VALUES (id, id, dob)
NewRow(id, dob) == [present |-> TRUE, mid |-> id, date |-> dob, made |-> TRUE]

\* The rows Id id can have when the programs start
InitialRows(id) ==
    {NoRow,
     [present |-> TRUE, mid |-> id, date |-> NoDate, made |-> FALSE],
     [present |-> TRUE, mid |-> id, date |-> [y |-> 2009, m |-> 6, d |-> 1], made |-> FALSE],
     [present |-> TRUE, mid |-> 0, date |-> NoDate, made |-> FALSE]}

BATCH_SIZE == BackfillBatch

\* The first n elements of a set of integers, ascending (TOP (n) ... ORDER BY Id)
RECURSIVE TopOf(_, _)
TopOf(S, n) ==
    IF n <= 0 \/ S = {} THEN {}
    ELSE LET least == CHOOSE x \in S : \A z \in S : x <= z
         IN  {least} \cup TopOf(S \ {least}, n - 1)

\* backfill_birthdates.py, lines 82-89: the rows phase 1 would insert
InsertCandidates(idnum, bd, pivot) ==
    {id \in DOMAIN idnum :
        /\ ~bd[id].present
        /\ LikeSixDigits(idnum[id])
        /\ BackfillDate(idnum[id], pivot) # NoDate}

\* A phase 2 that takes every row with a decodable identifier, whatever
\* date it holds: C39 tells it from the code's
UpdateCandidatesAnyDate(idnum, bd, pivot) ==
    {id \in DOMAIN idnum :
        /\ bd[id].present
        /\ bd[id].date # BackfillDate(idnum[id], pivot)
        /\ LikeSixDigits(idnum[id])
        /\ BackfillDate(idnum[id], pivot) # NoDate}

\* Lines 116-123: the rows phase 2 would update
UpdateCandidates(idnum, bd, pivot) ==
    {id \in DOMAIN idnum :
        /\ bd[id].present
        /\ bd[id].date = NoDate
        /\ LikeSixDigits(idnum[id])
        /\ BackfillDate(idnum[id], pivot) # NoDate}

\* A phase 1 that runs its INSERT once and stops, whatever it touched: C38
\* tells it from the code's
InsertLoopOnce(idnum, pivot, acc) ==
    LET batch == TopOf(InsertCandidates(idnum, acc.bd, pivot), BATCH_SIZE)
    IN  [bd |-> [id \in DOMAIN acc.bd |->
                    IF id \in batch
                    THEN NewRow(id, BackfillDate(idnum[id], pivot))
                    ELSE acc.bd[id]],
         total |-> acc.total + Cardinality(batch),
         rounds |-> acc.rounds + 1]

\* Lines 71-97: the WHILE loop of phase 1; acc = [bd, total, rounds]
RECURSIVE InsertLoop(_, _, _)
InsertLoop(idnum, pivot, acc) ==
    LET batch == TopOf(InsertCandidates(idnum, acc.bd, pivot), BATCH_SIZE)
        next == [bd |-> [id \in DOMAIN acc.bd |->
                            IF id \in batch
                            THEN NewRow(id, BackfillDate(idnum[id], pivot))
                            ELSE acc.bd[id]],
                 total |-> acc.total + Cardinality(batch),
                 rounds |-> acc.rounds + 1]
    IN  IF batch = {} THEN next ELSE InsertLoop(idnum, pivot, next)

\* A phase 2 that runs its UPDATE once and stops, whatever it touched: C37
\* tells it from the code's
UpdateLoopOnce(idnum, pivot, acc) ==
    LET batch == TopOf(UpdateCandidates(idnum, acc.bd, pivot), BATCH_SIZE)
    IN  [bd |-> [id \in DOMAIN acc.bd |->
                    IF id \in batch
                    THEN [acc.bd[id] EXCEPT !.date = BackfillDate(idnum[id], pivot)]
                    ELSE acc.bd[id]],
         total |-> acc.total + Cardinality(batch),
         rounds |-> acc.rounds + 1]

\* Lines 105-132: the WHILE loop of phase 2
RECURSIVE UpdateLoop(_, _, _)
UpdateLoop(idnum, pivot, acc) ==
    LET batch == TopOf(UpdateCandidates(idnum, acc.bd, pivot), BATCH_SIZE)
        next == [bd |-> [id \in DOMAIN acc.bd |->
                            IF id \in batch
                            THEN [acc.bd[id] EXCEPT !.date = BackfillDate(idnum[id], pivot)]
                            ELSE acc.bd[id]],
                 total |-> acc.total + Cardinality(batch),
                 rounds |-> acc.rounds + 1]
    IN  IF batch = {} THEN next ELSE UpdateLoop(idnum, pivot, next)

\* get_birthdate_by_masterid.py, lines 46-49; None for a missing row, a NULL
\* and an empty IDNumber
get_idnumber(idnum, master_id) ==
    IF master_id \in DOMAIN idnum THEN idnum[master_id] ELSE <<>>

\* Lines 51-80: UPDATE ... WHERE Id = ?, else INSERT with the explicit Id
upsert_birthdate(bd, master_id, dob) ==
    IF bd[master_id].present
    THEN [bd EXCEPT ![master_id].date = dob]
    ELSE [bd EXCEPT ![master_id] = NewRow(master_id, dob)]

\* Lines 83-102: main(master_id)
SingleRecord(idnum, bd, pivot, master_id) ==
    LET id_number == get_idnumber(idnum, master_id)
        six == first_six(id_number)
        dob == derive_dob(six, pivot)
    IN  IF id_number = <<>> THEN bd
        ELSE IF six = <<>> THEN bd
        ELSE IF dob = NoDate THEN bd
        ELSE upsert_birthdate(bd, master_id, dob)

\* correct_birthdates.py, line 24
CORRECTION_THRESHOLD_DATE == [y |-> 2008, m |-> 2, d |-> 23]

\* a >= b for two dates, a threshold that is itself corrected: C22 tells it
\* from the code's
DateAtLeast(a, b) ==
    a.y * 10000 + a.m * 100 + a.d >= b.y * 10000 + b.m * 100 + b.d

\* a > b for two dates
DateGreater(a, b) ==
    \/ a.y > b.y
    \/ a.y = b.y /\ a.m > b.m
    \/ a.y = b.y /\ a.m = b.m /\ a.d > b.d

\* A shift of ten years instead of a hundred: C40 tells it from the code's
TenYearsBefore(date) ==
    [y |-> date.y - 10, m |-> date.m,
     d |-> IF date.d > DaysIn(date.y - 10, date.m)
           THEN DaysIn(date.y - 10, date.m) ELSE date.d]

\* DATEADD(year, -100, date): 29 February becomes 28 February in a year
\* that has none
HundredYearsBefore(date) ==
    [y |-> date.y - 100, m |-> date.m,
     d |-> IF date.d > DaysIn(date.y - 100, date.m)
           THEN DaysIn(date.y - 100, date.m) ELSE date.d]

\* Line 112: WHERE BirthDate > @ThresholdDate (never true of a NULL date)
AboveThreshold(bd) ==
    {id \in DOMAIN bd :
        /\ bd[id].present
        /\ bd[id].date # NoDate
        /\ DateGreater(bd[id].date, CORRECTION_THRESHOLD_DATE)}

\* Lines 100-127: the UPDATE inside the transaction
Corrected(bd) ==
    [id \in DOMAIN bd |->
        IF id \in AboveThreshold(bd)
        THEN [bd[id] EXCEPT !.date = HundredYearsBefore(bd[id].date)]
        ELSE bd[id]]

NoOp == [name |-> "none", arg |-> 0, dry |-> FALSE]

BirthInit ==
    /\ DriverOff
    /\ \E nums \in [BirthIds -> SampleIdNumbers], p \in BirthPivots,
          rows \in [BirthIds -> UNION {InitialRows(id) : id \in BirthIds}] :
          /\ \A id \in BirthIds : rows[id] \in InitialRows(id)
          /\ LET table == [id \in BirthKeys |->
                              IF id \in BirthIds THEN rows[id] ELSE NoRow]
             IN  lab = [phase |-> "birth", idnum |-> nums, pivot |-> p,
                        bd |-> table, bd0 |-> table, op |-> NoOp,
                        ins |-> 0, upd |-> 0, changed |-> {}]

\* One run of backfill_birthdates.py (autocommit: every statement stays)
BackfillRun ==
    /\ lab.phase = "birth"
    /\ LET one == InsertLoop(lab.idnum, lab.pivot,
                             [bd |-> lab.bd, total |-> 0, rounds |-> 0])
           two == UpdateLoop(lab.idnum, lab.pivot,
                             [bd |-> one.bd, total |-> 0, rounds |-> 0])
       IN  lab' = [lab EXCEPT !.bd = two.bd, !.bd0 = lab.bd,
                              !.op = [name |-> "backfill", arg |-> 0, dry |-> FALSE],
                              !.ins = one.total, !.upd = two.total,
                              !.changed = {}]
    /\ UNCHANGED driverVars

\* One run of get_birthdate_by_masterid.py with TEST_MASTER_ID = master_id
SingleRun ==
    /\ lab.phase = "birth"
    /\ \E master_id \in BirthKeys :
          lab' = [lab EXCEPT !.bd = SingleRecord(lab.idnum, lab.bd, lab.pivot, master_id),
                             !.bd0 = lab.bd,
                             !.op = [name |-> "single", arg |-> master_id, dry |-> FALSE],
                             !.ins = 0, !.upd = 0, !.changed = {}]
    /\ UNCHANGED driverVars

\* One run of correct_birthdates.py, as a rehearsal (DRY_RUN) or live
CorrectionRun ==
    /\ lab.phase = "birth"
    /\ \E dry \in BOOLEAN :
          lab' = [lab EXCEPT !.bd = IF dry THEN lab.bd ELSE Corrected(lab.bd),
                             !.bd0 = lab.bd,
                             !.op = [name |-> "correct", arg |-> 0, dry |-> dry],
                             !.ins = 0, !.upd = 0,
                             !.changed = AboveThreshold(lab.bd)]
    /\ UNCHANGED driverVars

BirthNext == BackfillRun \/ SingleRun \/ CorrectionRun

BirthSpec == BirthInit /\ [][BirthNext]_vars

(***************************************************************************)
(* The correction bench: one run of correct_birthdates.py from its banner   *)
(* to its end, over a dbo.BirthDates table drawn from sample dates.         *)
(*   dry      DRY_RUN (line 30)                                              *)
(*   pc       "mode" (line 144), "prompt" (line 152), "connect" (line 164),  *)
(*            "execute" (line 168), "export" (line 196), "finished", or how  *)
(*            the script ended early: "aborted" (sys.exit of lines 155 and   *)
(*            158), "crashed" (an exception nothing catches), "db_error"     *)
(*            (line 219)                                                     *)
(*   input    what the operator did at the prompt                            *)
(*   opened   pyodbc.connect was called; executed   cur.execute was called   *)
(*   rows     the result set fetched at line 182; csv the rows written to    *)
(*            the CSV file                                                   *)
(***************************************************************************)
CorrectItems == 2

CorrectIds == 1..CorrectItems

SampleDates ==
    {NoDate,
     [y |-> 1980, m |-> 1, d |-> 1],
     [y |-> 2007, m |-> 12, d |-> 31],
     [y |-> 2008, m |-> 2, d |-> 23],
     [y |-> 2008, m |-> 2, d |-> 24],
     [y |-> 2009, m |-> 6, d |-> 1],
     [y |-> 2012, m |-> 2, d |-> 29]}

CorrectRows(id) ==
    {NoRow} \cup {[present |-> TRUE, mid |-> id, date |-> dt, made |-> FALSE] :
                     dt \in SampleDates}

\* ORDER BY OldBirthDate ASC, Id ASC (line 132): does row a come before b
ChangeBefore(a, b) ==
    \/ DateGreater(b.old, a.old)
    \/ a.old = b.old /\ a.id < b.id

\* One row of @ChangedRecords (lines 106-111): deleted.Id,
\* deleted.MasterItemId, deleted.BirthDate, inserted.BirthDate
ChangedRecord(bd, id) ==
    [id |-> id, mid |-> bd[id].mid, old |-> bd[id].date,
     new |-> HundredYearsBefore(bd[id].date)]

\* Lines 131-132: the rows of @ChangedRecords for the Ids in S, in order
RECURSIVE OrderedChanges(_, _)
OrderedChanges(bd, S) ==
    IF S = {} THEN <<>>
    ELSE LET first == CHOOSE x \in S :
                         \A z \in S \ {x} :
                            ChangeBefore(ChangedRecord(bd, x), ChangedRecord(bd, z))
         IN  <<ChangedRecord(bd, first)>> \o OrderedChanges(bd, S \ {first})

\* A transaction that is committed whatever @DryRun says: C21 tells it from
\* the code's
AfterTransactionCommitted(before, after, dryRun) == after

\* Lines 118-127: ROLLBACK TRANSACTION brings the table back, COMMIT keeps
\* the update
AfterTransaction(before, after, dryRun) == IF dryRun THEN before ELSE after

\* Lines 100-132: the table after the batch and the result set it returns;
\* the table variable @ChangedRecords is not undone by the rollback
TSQL_CORRECT_RECORDS(bd, dryRun) ==
    [bd |-> AfterTransaction(bd, Corrected(bd), dryRun),
     rows |-> OrderedChanges(bd, AboveThreshold(bd))]

\* str.upper() on the letters of the sample answers
UpperChar(c) ==
    CASE c = "y" -> "Y" [] c = "e" -> "E" [] c = "s" -> "S"
      [] c = "n" -> "N" [] c = "o" -> "O" [] OTHER -> c

Upper(s) == [k \in DOMAIN s |-> UpperChar(s[k])]

\* str.strip(), for the white space of the sample answers (blanks)
RECURSIVE Strip(_)
Strip(s) ==
    IF s = <<>> THEN s
    ELSE IF s[1] = " " THEN Strip(SubSeq(s, 2, Len(s)))
    ELSE IF s[Len(s)] = " " THEN Strip(SubSeq(s, 1, Len(s) - 1))
    ELSE s

YES == <<"Y", "E", "S">>

\* A prompt that lets every answer through: C23 tells it from the code's
ConfirmedAlways(text) == TRUE

\* Lines 152-153: confirm = input(...).strip().upper(); confirm == 'YES'
Confirmed(text) == Upper(Strip(text)) = YES

PromptTexts ==
    {YES,
     <<"y", "e", "s">>,
     <<" ", "Y", "e", "s", " ">>,
     <<"Y", "E", "S", "S">>,
     <<"Y">>,
     <<"N", "O">>,
     <<"n", "o">>,
     <<>>}

\* What input() does: it returns a line, or raises KeyboardInterrupt
\* (Ctrl+C) or EOFError (standard input is closed)
PromptInputs ==
    {[kind |-> "text", text |-> t] : t \in PromptTexts}
        \cup {[kind |-> "interrupt", text |-> <<>>], [kind |-> "eof", text |-> <<>>]}

NoInput == [kind |-> "none", text |-> <<>>]

CorrectInit ==
    /\ DriverOff
    /\ \E dryRun \in BOOLEAN,
          rows \in [CorrectIds -> UNION {CorrectRows(id) : id \in CorrectIds}] :
          /\ \A id \in CorrectIds : rows[id] \in CorrectRows(id)
          /\ lab = [phase |-> "correct", dry |-> dryRun, pc |-> "mode",
                    bd |-> rows, bd0 |-> rows, input |-> NoInput,
                    opened |-> FALSE, executed |-> FALSE, fault |-> "none",
                    rows |-> <<>>, csv |-> <<>>]

\* Lines 144-149: the prompt is shown in a live run only
CorrectMode ==
    /\ lab.phase = "correct"
    /\ lab.pc = "mode"
    /\ lab' = [lab EXCEPT !.pc = IF lab.dry THEN "connect" ELSE "prompt"]
    /\ UNCHANGED driverVars

\* Lines 151-158
CorrectPrompt ==
    /\ lab.phase = "correct"
    /\ lab.pc = "prompt"
    /\ \E in \in PromptInputs :
          lab' = [lab EXCEPT
                    !.input = in,
                    !.pc = CASE in.kind = "interrupt" -> "aborted"
                             [] in.kind = "eof" -> "crashed"
                             [] OTHER -> IF Confirmed(in.text) THEN "connect"
                                         ELSE "aborted"]
    /\ UNCHANGED driverVars

\* Line 164: pyodbc.connect returns a connection or raises pyodbc.Error
CorrectConnect ==
    /\ lab.phase = "correct"
    /\ lab.pc = "connect"
    /\ \E ok \in BOOLEAN :
          lab' = [lab EXCEPT !.opened = TRUE,
                             !.pc = IF ok THEN "execute" ELSE "db_error"]
    /\ UNCHANGED driverVars

\* Lines 168-194: the batch runs and its result set is fetched.  A
\* pyodbc.Error can come before the change is committed (the server undoes
\* the open transaction) or after it (the result set is not received).
CorrectExecute ==
    /\ lab.phase = "correct"
    /\ lab.pc = "execute"
    /\ \E fault \in {"none", "before", "after"} :
          LET out == TSQL_CORRECT_RECORDS(lab.bd, lab.dry)
          IN  lab' = [lab EXCEPT
                        !.executed = TRUE,
                        !.fault = fault,
                        !.bd = IF fault = "before" THEN lab.bd ELSE out.bd,
                        !.rows = IF fault = "none" THEN out.rows ELSE <<>>,
                        !.pc = IF fault = "none" THEN "export" ELSE "db_error"]
    /\ UNCHANGED driverVars

\* Lines 196-215: the CSV file is written when there are rows; an IOError
\* is logged and the script goes on
CorrectExport ==
    /\ lab.phase = "correct"
    /\ lab.pc = "export"
    /\ \E written \in BOOLEAN :
          lab' = [lab EXCEPT !.csv = IF written THEN lab.rows ELSE <<>>,
                             !.pc = "finished"]
    /\ UNCHANGED driverVars

CorrectNext ==
    CorrectMode \/ CorrectPrompt \/ CorrectConnect \/ CorrectExecute \/ CorrectExport

CorrectSpec == CorrectInit /\ [][CorrectNext]_vars

(***************************************************************************)
(* The repeated correction: correct_birthdates.py run live several times   *)
(* in a row over a table whose dates reach a century past the threshold.   *)
(*   first   dbo.BirthDates before the first pass; bd0 before the last     *)
(*   passes  the number of passes made; rows the last pass's result set    *)
(***************************************************************************)
MaxPasses == 2

FarDates ==
    SampleDates \cup {[y |-> 2104, m |-> 2, d |-> 29],
                      [y |-> 2108, m |-> 2, d |-> 23],
                      [y |-> 2108, m |-> 2, d |-> 24]}

RepeatRows(id) ==
    {NoRow} \cup {[present |-> TRUE, mid |-> id, date |-> dt, made |-> FALSE] :
                     dt \in FarDates}

RepeatInit ==
    /\ DriverOff
    /\ \E rows \in [CorrectIds -> UNION {RepeatRows(id) : id \in CorrectIds}] :
          /\ \A id \in CorrectIds : rows[id] \in RepeatRows(id)
          /\ lab = [phase |-> "repeat", first |-> rows, bd0 |-> rows, bd |-> rows,
                    passes |-> 0, rows |-> <<>>]

\* One live run (DRY_RUN = False, the prompt answered YES): line 168
RepeatPass ==
    /\ lab.phase = "repeat"
    /\ lab.passes < MaxPasses
    /\ LET r == TSQL_CORRECT_RECORDS(lab.bd, FALSE)
       IN  lab' = [lab EXCEPT !.bd0 = lab.bd, !.bd = r.bd, !.rows = r.rows,
                              !.passes = @ + 1]
    /\ UNCHANGED driverVars

RepeatNext == RepeatPass

RepeatSpec == RepeatInit /\ [][RepeatNext]_vars

(***************************************************************************)
(* The mask solver (src/IdNumbers/sa_id_mask_solver.py).  An identity       *)
(* number and a mask are sequences of 13 characters; "*" in a mask stands   *)
(* for an unknown digit.  The bench runs generate_ids(MASK) candidate by    *)
(* candidate:                                                               *)
(*   pc     "start" (before line 44), "loop" (the for loop of line 50, cand *)
(*          the combination at hand) or "end" (the generator is used up)    *)
(*   out    the strings yielded so far, in order                            *)
(***************************************************************************)
\* d[::2] and d[1::2]: the characters at the odd and at the even places
OddPlaces(s) == [k \in 1..((Len(s) + 1) \div 2) |-> s[2 * k - 1]]

EvenPlaces(s) == [k \in 1..(Len(s) \div 2) |-> s[2 * k]]

\* The sum of a string's digits
RECURSIVE SumOfDigits(_)
SumOfDigits(s) ==
    IF s = <<>> THEN 0 ELSE DigitVal(Head(s)) + SumOfDigits(Tail(s))

\* sum(int(y) for y in str(n))
RECURSIVE DigitSum(_)
DigitSum(n) == IF n < 10 THEN n ELSE (n % 10) + DigitSum(n \div 10)

\* Lines 21-25
luhn_sa(stem12) ==
    LET odd == SumOfDigits(OddPlaces(stem12))
        even == DigitSum(IntOf(EvenPlaces(stem12)) * 2)
    IN  DigitChar((10 - ((odd + even) % 10)) % 10)

\* str.upper() on the letters a GENDER setting is made of
GenderUpper(g) ==
    CASE g = "m" -> "M" [] g = "f" -> "F" [] g = "u" -> "U" [] OTHER -> g

\* A gender test that accepts every sequence block: C30 tells it from the
\* code's
gender_okAny(id13, GENDER) == TRUE

\* Lines 35-41
gender_ok(id13, GENDER) ==
    LET block == IntOf(SubSeq(id13, 7, 10))
    IN  IF GenderUpper(GENDER) = "M" THEN block >= 5000
        ELSE IF GenderUpper(GENDER) = "F" THEN block < 5000
        ELSE TRUE

\* Lines 44-50: the first element of product(*opts)
FirstCombo(mask) == [k \in DOMAIN mask |-> IF mask[k] = "*" THEN "0" ELSE mask[k]]

\* The element of product(*opts) after cand, the rightmost wildcard running
\* fastest; <<>> when cand was the last one
RECURSIVE Bump(_, _, _)
Bump(mask, cand, k) ==
    IF k = 0 THEN <<>>
    ELSE IF mask[k] # "*" THEN Bump(mask, cand, k - 1)
    ELSE IF cand[k] # "9"
    THEN [cand EXCEPT ![k] = DigitChar(DigitVal(cand[k]) + 1)]
    ELSE Bump(mask, [cand EXCEPT ![k] = "0"], k - 1)

NextCombo(mask, cand) == Bump(mask, cand, Len(mask))

\* Lines 52-54: is the candidate yielded
Accepted(cand, GENDER, now2) ==
    /\ valid_date(SubSeq(cand, 1, 2), SubSeq(cand, 3, 4), SubSeq(cand, 5, 6), now2)
    /\ gender_ok(cand, GENDER)
    /\ luhn_sa(SubSeq(cand, 1, Len(cand) - 1)) = cand[Len(cand)]

SampleMasks ==
    {<<"9", "7", "0", "4", "2", "0", "5", "0", "0", "0", "0", "*", "*">>,
     <<"9", "7", "0", "4", "2", "0", "4", "9", "9", "9", "0", "8", "*">>,
     <<"1", "*", "0", "2", "2", "9", "5", "0", "0", "1", "0", "8", "*">>,
     <<"0", "0", "0", "2", "2", "9", "*", "9", "9", "9", "0", "8", "*">>,
     <<"8", "0", "1", "3", "0", "1", "5", "0", "0", "9", "0", "8", "*">>,
     <<"8", "0", "0", "1", "0", "1", "5", "0", "0", "9", "0", "8", "7">>,
     <<"8", "0", "0", "1", "0", "1", "*", "0", "0", "9", "0", "8", "4">>}

GenderSettings == {"M", "F", "U", "f"}

MaskInit ==
    /\ DriverOff
    /\ \E m \in SampleMasks, g \in GenderSettings, p \in BirthPivots :
          lab = [phase |-> "mask", mask |-> m, GENDER |-> g, now2 |-> TwoChars(p),
                 pc |-> "start", cand |-> <<>>, out |-> <<>>]

\* Lines 44-50: opts is built and product hands out its first element
MaskStart ==
    /\ lab.phase = "mask"
    /\ lab.pc = "start"
    /\ lab' = [lab EXCEPT !.pc = "loop", !.cand = FirstCombo(lab.mask)]
    /\ UNCHANGED driverVars

\* Lines 50-55: one pass of the for loop
MaskStep ==
    /\ lab.phase = "mask"
    /\ lab.pc = "loop"
    /\ LET next == NextCombo(lab.mask, lab.cand)
       IN  lab' = [lab EXCEPT
                     !.out = IF Accepted(lab.cand, lab.GENDER, lab.now2)
                             THEN Append(@, lab.cand) ELSE @,
                     !.pc = IF next = <<>> THEN "end" ELSE "loop",
                     !.cand = next]
    /\ UNCHANGED driverVars

MaskNext == MaskStart \/ MaskStep

MaskSpec == MaskInit /\ [][MaskNext]_vars

(***************************************************************************)
(* Two instances of the driver on one store.  Each run of the script has    *)
(* its own last_processed_id, set to 0 at line 218 and kept nowhere else;   *)
(* the tables dbo.Genders and dbo.Languages are shared.  An instance is     *)
(* followed page by page:                                                   *)
(*   pc     "fetch" (lines 271-323), "dispatch" (lines 328-333), "write"    *)
(*          (lines 337-368) or "done" (the break of line 299)               *)
(*   rows, tasks   the page and its units; ok the units that returned a     *)
(*          prediction; sent every Id the instance has dispatched so far    *)
(***************************************************************************)
Instances == {1, 2}

NewInstance == [pc |-> "fetch", last_processed_id |-> 0, rows |-> <<>>,
                tasks |-> <<>>, ok |-> {}, sent |-> {}]

\* The list an instance hands to an upsert: its predictions, in task order
PredictedPairs(inst, value) ==
    LET ids == SelectSeq(inst.tasks, LAMBDA id : id \in inst.ok)
    IN  [k \in DOMAIN ids |-> <<ids[k], value>>]

storeVars == <<cfg, Genders, Languages>>

idleVars == <<pc, last_processed_id, cumulative_records_fetched_for_processing,
              total_api_predictions_successful, total_api_errors,
              records_to_fetch_this_batch, conn, fetch_cursor,
              rows_in_current_batch, tasks, units, i, api_results,
              genders_to_upsert, languages_to_upsert, faults, hist>>

TwoInit ==
    /\ cfg \in {c \in Configs : ~c.limited /\ c.pwd /\ c.conc = 1}
    /\ Genders = [id \in Ids |-> ItemOf(cfg.scenario, id).g]
    /\ Languages = [id \in Ids |-> ItemOf(cfg.scenario, id).l]
    /\ pc = "off"
    /\ last_processed_id = 0
    /\ cumulative_records_fetched_for_processing = 0
    /\ total_api_predictions_successful = 0
    /\ total_api_errors = 0
    /\ records_to_fetch_this_batch = 0
    /\ conn = "none"
    /\ fetch_cursor = "none"
    /\ rows_in_current_batch = <<>>
    /\ tasks = <<>>
    /\ units = <<>>
    /\ i = 0
    /\ api_results = <<>>
    /\ genders_to_upsert = <<>>
    /\ languages_to_upsert = <<>>
    /\ faults = 0
    /\ hist = [exit |-> "none"]
    /\ lab = [phase |-> "two", inst |-> [p \in Instances |-> NewInstance]]

\* Lines 271-323 of instance p: the page query with its own watermark
TwoFetch(p) ==
    /\ lab.inst[p].pc = "fetch"
    /\ LET me == lab.inst[p]
           page == FetchPage(DB_BATCH_SIZE, me.last_processed_id)
           units_of_page == BuildTasks(page)
       IN  lab' = [lab EXCEPT !.inst[p] =
                     IF page = <<>>
                     THEN [me EXCEPT !.pc = "done"]
                     ELSE IF units_of_page = <<>>
                     THEN [me EXCEPT !.last_processed_id = Last(page)]
                     ELSE [me EXCEPT !.pc = "dispatch", !.rows = page,
                                     !.tasks = units_of_page]]
    /\ UNCHANGED <<storeVars, idleVars>>

\* Lines 328-333 of instance p: every unit of the page is sent to the
\* prediction service and returns a prediction or an error
TwoDispatch(p) ==
    /\ lab.inst[p].pc = "dispatch"
    /\ \E good \in SUBSET {lab.inst[p].tasks[k] : k \in DOMAIN lab.inst[p].tasks} :
          lab' = [lab EXCEPT !.inst[p].pc = "write",
                             !.inst[p].ok = good,
                             !.inst[p].sent = @ \cup {lab.inst[p].tasks[k] :
                                                        k \in DOMAIN lab.inst[p].tasks}]
    /\ UNCHANGED <<storeVars, idleVars>>

\* Lines 337-368 of instance p: the two upserts and the watermark
TwoWrite(p) ==
    /\ lab.inst[p].pc = "write"
    /\ Genders' = batch_upsert_genders(Genders,
                      PredictedPairs(lab.inst[p], "MALE"), "none").table
    /\ Languages' = batch_upsert_languages(Languages,
                        PredictedPairs(lab.inst[p], "English"), "none").table
    /\ lab' = [lab EXCEPT !.inst[p] =
                 [lab.inst[p] EXCEPT !.pc = "fetch",
                                     !.last_processed_id = Last(lab.inst[p].rows),
                                     !.rows = <<>>, !.tasks = <<>>, !.ok = {}]]
    /\ UNCHANGED <<cfg, idleVars>>

TwoNext == \E p \in Instances : TwoFetch(p) \/ TwoDispatch(p) \/ TwoWrite(p)

TwoSpec == TwoInit /\ [][TwoNext]_vars

(***************************************************************************)
(* Properties.                                                             *)
(***************************************************************************)

\* C1: last_processed_id is set to the page's last Id only if every upsert
\* attempted for the page has committed: once the watermark has moved past a
\* page, neither batch_upsert_genders nor batch_upsert_languages was rolled
\* back for that page.
C1_WatermarkOnlyAfterCommit ==
    (pc = "sleep_batch" /\ last_processed_id # hist.wm0) =>
        (hist.gOut # "rolled_back" /\ hist.lOut # "rolled_back")

\* C2: at no moment are more than API_CALL_CONCURRENCY units started and not
\* yet settled; while a chunk is gathered each of its units is running or
\* has returned; and when the chunk loop is left every task of the page has a
\* result, a prediction or an error, in the position of its task.
C2_BoundedConcurrency ==
    /\ Cardinality(InFlight) <= API_CALL_CONCURRENCY
    /\ pc = "gather" => \A k \in Chunk : units[k].st # "new"
    /\ pc = "reconcile" =>
          /\ Len(api_results) = Len(tasks)
          /\ \A k \in DOMAIN tasks :
                /\ units[k].st = "done"
                /\ api_results[k].item_id = tasks[k]
                /\ api_results[k].kind \in {"prediction", "error"}

\* The ceiling is reached while a unit of the page still waits for its chunk.
C2_Witness ==
    /\ pc = "gather"
    /\ Cardinality(InFlight) = API_CALL_CONCURRENCY
    /\ \E k \in DOMAIN units : units[k].st = "new"

\* C3: with RETRY_ATTEMPTS = A, every API call but the last one made by a
\* unit has failed and at most A calls are made; a call that succeeds ends
\* the unit with the payload of that call (k failures, then success: k + 1
\* calls); a unit returns an error only after A failed calls, and the error
\* is that of the last call; the unit always ends with a result dictionary.
C3_RetryEnvelope ==
    (lab.phase = "unit" /\ lab.first # "" /\ lab.last # "") =>
        LET u == lab.unit
            h == lab.outs
            n == Len(lab.outs)
        IN  /\ n <= RETRY_ATTEMPTS
            /\ \A j \in 1..(n - 1) : ~h[j].ok
            /\ (n > 0 /\ h[n].ok) =>
                  /\ u.st = "done"
                  /\ u.res = [kind |-> "prediction", error |-> "none",
                              prediction |-> h[n].payload]
            /\ (n = RETRY_ATTEMPTS /\ ~h[n].ok) =>
                  /\ u.st = "done"
                  /\ u.res = ErrorResult(h[n].error)
            /\ u.st = "done" => (n > 0 /\ (h[n].ok \/ n = RETRY_ATTEMPTS))
            /\ u.st \in {"new", "calling", "sleeping", "done"}

\* Two failed calls, then a successful third one.
C3_Witness ==
    /\ lab.phase = "unit"
    /\ Len(lab.outs) = RETRY_ATTEMPTS
    /\ lab.outs[RETRY_ATTEMPTS].ok
    /\ lab.unit.res.kind = "prediction"

\* C4: batch_upsert_genders applied a second time with the same list, after
\* a first application that committed, writes no row (none inserted, none
\* updated, row count 0) and leaves the table as the first application left
\* it.
C4_SecondUpsertWritesNothing ==
    (lab.phase = "twice" /\ lab.first.outcome = "committed") =>
        /\ lab.second.written = {}
        /\ lab.second.ret = 0
        /\ lab.second.table = lab.first.table

\* The first application updated a row and the second one committed as well.
C4_Witness ==
    /\ lab.phase = "twice"
    /\ lab.first.outcome = "committed"
    /\ lab.second.outcome = "committed"
    /\ \E id \in lab.first.written : lab.table0[id] # <<>>

\* The value the list gives for key id
ListedValue(list, id) == list[CHOOSE k \in DOMAIN list : list[k][1] = id][2]

C6_RefetchSamePage ==
    (pc \in {"dispatch", "sleep_skip"} /\ hist.refetchOf # <<>>) =>
        rows_in_current_batch = hist.refetchOf

\* C7: when a store error occurs while a page is written, neither table
\* keeps a write of that page, and the watermark stays where it was, so that
\* the page is fetched again.
C7_FailedWriteLeavesNothing ==
    (hist.gOut \in {"rolled_back", "raised"} \/ hist.lOut \in {"rolled_back", "raised"}) =>
        /\ Genders = hist.G0
        /\ Languages = hist.L0
        /\ last_processed_id = hist.wm0

\* C8: the loop is left only after an empty page or with the cumulative
\* count at MAX_TOTAL_RECORDS_TO_PROCESS; the cumulative count is the number
\* of distinct records fetched; after the exit the driver takes no step.
C8_ExitAndCount ==
    /\ pc = "done" =>
          /\ hist.exit \in {"empty", "budget"}
          /\ hist.exit = "budget" =>
                cumulative_records_fetched_for_processing >= MAX_TOTAL_RECORDS_TO_PROCESS
          /\ ~ENABLED Next
    /\ cumulative_records_fetched_for_processing < CountCap =>
          cumulative_records_fetched_for_processing = Cardinality(hist.fetched)

\* C9: with no budget and DB_PASSWORD set (the store faults of a run are
\* finitely many), the driver eventually leaves its loop.
C9_Terminates == <>(pc = "done" \/ cfg.limited \/ ~cfg.pwd)

\* C10: after a failed connection or a raised pyodbc.Error the driver, back
\* at the head of its loop, goes on to connect and fetch, and
\* last_processed_id is what it was when the batch began.
C10_DbErrorRetries ==
    [][(pc = "loop" /\ hist.dbErr) =>
            (pc' = "connect" /\ last_processed_id' = hist.wm0)]_vars

\* C11: the page size handed to the query is min(DB_BATCH_SIZE, budget -
\* cumulative count) when a budget is set and DB_BATCH_SIZE otherwise, and a
\* page never holds more rows than that; the cumulative count never exceeds
\* a positive budget; with a budget of 0 or less the function returns at
\* line 229 with no connection opened and no row fetched.
C11_BudgetBoundsFetch ==
    /\ (pc = "fetch" /\ cfg.limited) =>
          records_to_fetch_this_batch =
              Min(DB_BATCH_SIZE, MAX_TOTAL_RECORDS_TO_PROCESS
                                 - cumulative_records_fetched_for_processing)
    /\ (pc = "fetch" /\ ~cfg.limited) => records_to_fetch_this_batch = DB_BATCH_SIZE
    /\ pc \in {"fetch", "dispatch", "gather", "sleep_skip"} =>
          /\ records_to_fetch_this_batch >= 1
          /\ Len(rows_in_current_batch) <= records_to_fetch_this_batch
    /\ (cfg.limited /\ MAX_TOTAL_RECORDS_TO_PROCESS > 0) =>
          cumulative_records_fetched_for_processing <= MAX_TOTAL_RECORDS_TO_PROCESS
    /\ (cfg.limited /\ MAX_TOTAL_RECORDS_TO_PROCESS <= 0) =>
          /\ pc \in {"start", "returned"}
          /\ conn = "none"
          /\ hist.fetched = {}
          /\ cumulative_records_fetched_for_processing = 0

\* The budget cut a page short and the page filled the budget exactly.
C11_Witness ==
    /\ cfg.limited
    /\ pc = "dispatch"
    /\ records_to_fetch_this_batch < DB_BATCH_SIZE
    /\ Len(rows_in_current_batch) = records_to_fetch_this_batch
    /\ cumulative_records_fetched_for_processing = MAX_TOTAL_RECORDS_TO_PROCESS

\* A name that is neither NULL nor white space only, as line 311 judges it
NonBlankName(name) == name # NULL /\ PyStrip(name) # ""

\* C12: every row of a fetched page has Id above the watermark of the
\* iteration, lacks a Genders row or a Languages row and has FullName and
\* Surname that are neither NULL nor blank; the rows ascend by Id; and every
\* Id between the watermark and the page's last Id that meets these
\* conditions is in the page.
C12_PageRows ==
    pc \in {"dispatch", "sleep_skip"} =>
        LET rows == rows_in_current_batch
            Wanted(id) ==
                /\ id > hist.wm0
                /\ Genders[id] = <<>> \/ Languages[id] = <<>>
                /\ NonBlankName(MasterItems[id].FullName)
                /\ NonBlankName(MasterItems[id].Surname)
        IN  /\ \A k \in DOMAIN rows : Wanted(rows[k])
            /\ \A j, k \in DOMAIN rows : j < k => rows[j] < rows[k]
            /\ \A id \in Ids :
                  (Wanted(id) /\ id <= Last(rows)) =>
                      \E k \in DOMAIN rows : rows[k] = id

\* C13: a unit that ends with an error result (its attempts used up, or an
\* exception of the API call) costs its own row only.  The page is given up
\* with the 10 s sleep only for a prediction that is not a JSON object, never
\* for an error result; when the page reaches the upserts every task has
\* its result, every prediction's gender and language are in the lists and
\* no pair of a failed unit is; and an upsert that committed has left the
\* listed value in the table.
C13_UnitErrorIsolated ==
    /\ pc = "sleep10" =>
          \E k \in DOMAIN api_results :
              api_results[k].kind = "prediction" /\ ~api_results[k].prediction.dict
    /\ pc \in {"upsert_g", "upsert_l", "advance"} =>
          /\ Len(api_results) = Len(tasks)
          /\ \A k \in DOMAIN api_results :
                LET r == api_results[k]
                    InList(list, v) == \E n \in DOMAIN list : list[n] = <<r.item_id, v>>
                    Listed(list) == \E n \in DOMAIN list : list[n][1] = r.item_id
                IN  /\ (r.kind = "prediction" /\ r.prediction.gender # NULL) =>
                          InList(genders_to_upsert, r.prediction.gender)
                    /\ (r.kind = "prediction" /\ r.prediction.language # NULL) =>
                          InList(languages_to_upsert, r.prediction.language)
                    /\ r.kind = "error" =>
                          (~Listed(genders_to_upsert) /\ ~Listed(languages_to_upsert))
    /\ (pc = "advance" /\ hist.gOut = "committed") =>
          \A n \in DOMAIN genders_to_upsert :
              Genders[genders_to_upsert[n][1]] = <<genders_to_upsert[n][2]>>
    /\ (pc = "advance" /\ hist.lOut = "committed") =>
          \A n \in DOMAIN languages_to_upsert :
              Languages[languages_to_upsert[n][1]] = <<languages_to_upsert[n][2]>>

\* One unit of a page used up its attempts, another one's prediction was
\* written, and the page goes on to advance the watermark.
C13_Witness ==
    /\ pc = "advance"
    /\ hist.gOut = "committed"
    /\ hist.lOut = "committed"
    /\ \E j, k \in DOMAIN api_results :
          /\ api_results[j].kind = "error"
          /\ api_results[j].error \in Failures
          /\ api_results[k].kind = "prediction"
          /\ Genders[api_results[k].item_id] = <<api_results[k].prediction.gender>>

\* C14: when an interrupt has stopped the run, the page of the interrupted
\* iteration has had neither upsert started, or both upserts finished, or
\* its first upsert raised and wrote nothing: the interrupt never falls
\* between the two upserts of a page.
C14_InterruptBetweenPages ==
    pc = "interrupted" =>
        \/ hist.gOut = "none" /\ hist.lOut = "none"
        \/ hist.gOut # "none" /\ hist.lOut # "none"
        \/ hist.gOut = "raised" /\ Genders = hist.G0 /\ Languages = hist.L0

\* Interrupted in the pause after a page whose two upserts committed.
C14_Witness ==
    /\ pc = "interrupted"
    /\ hist.gOut = "committed"
    /\ hist.lOut = "committed"
    /\ Genders # hist.G0

\* C15: dbo.Genders and dbo.Languages hold at most one row per MasterItemId
\* in every state of a run, whatever pages were upserted and however often a
\* key came back (a page fetched again, a key that had a row before the run).
C15_OneRowPerKey ==
    \A id \in Ids : Len(Genders[id]) <= 1 /\ Len(Languages[id]) <= 1

\* A key that had a Genders row before the run was upserted with another
\* value, and a Languages row was inserted for it.
C15_Witness ==
    \E id \in Ids :
        /\ ItemOf(cfg.scenario, id).g = <<"FEMALE">>
        /\ Genders[id] = <<"MALE">>
        /\ ItemOf(cfg.scenario, id).l = <<>>
        /\ Languages[id] # <<>>

\* C16: for every two-digit year YY and every current two-digit year P,
\* derive_dob, the CASE expression of the backfill and valid_date each put
\* YY in the 1900s when YY > P and in the 2000s when YY <= P.
C16_CenturyPivot ==
    lab.phase = "pivot" =>
        LET want == (IF lab.yy > lab.pivot THEN 1900 ELSE 2000) + lab.yy
        IN  /\ lab.py # 0 => lab.py = want
            /\ lab.sql # 0 => lab.sql = want
            /\ lab.mask # 0 => lab.mask = want

\* YY equal to P: all three have chosen the 2000s.
C16_Witness ==
    /\ lab.phase = "pivot"
    /\ lab.yy = lab.pivot
    /\ lab.yy = 26
    /\ lab.py = 2026 /\ lab.sql = 2026 /\ lab.mask = 2026

\* C17: first_six returns no block exactly when the identifier has no six
\* digits in a row; derive_dob returns no date for month 13 and for 30
\* February; and a run of the single-record routine on an identifier with no
\* block, or with a block that is no calendar date, leaves dbo.BirthDates as
\* it was.
C17_UndecodableWritesNothing ==
    lab.phase = "birth" =>
        /\ \A id \in BirthIds :
              LET s == lab.idnum[id]
              IN  (first_six(s) = <<>>) <=>
                      ~\E k \in 1..(Len(s) - 5) : \A j \in k..(k + 5) : s[j] \in Digits
        /\ derive_dob(<<"9", "9", "1", "3", "0", "1">>, lab.pivot) = NoDate
        /\ derive_dob(<<"0", "4", "0", "2", "3", "0">>, lab.pivot) = NoDate
        /\ lab.op.name = "single" =>
              LET six == first_six(get_idnumber(lab.idnum, lab.op.arg))
              IN  (six = <<>> \/ derive_dob(six, lab.pivot) = NoDate) =>
                      lab.bd = lab.bd0

\* The single-record routine has run on an identifier whose six digits are
\* no date, for a record that has no row.
C17_Witness ==
    /\ lab.phase = "birth"
    /\ lab.op.name = "single"
    /\ lab.op.arg \in BirthIds
    /\ first_six(lab.idnum[lab.op.arg]) # <<>>
    /\ derive_dob(first_six(lab.idnum[lab.op.arg]), lab.pivot) = NoDate
    /\ ~lab.bd[lab.op.arg].present

\* C18: for every identifier the batch backfill and the single-record
\* decoder compute the same date: that of the first run of six digits,
\* wherever it starts, or none.
C18_DecodersAgree ==
    lab.phase = "birth" =>
        \A id \in BirthIds :
            LET six == first_six(lab.idnum[id])
                single == IF six = <<>> THEN NoDate ELSE derive_dob(six, lab.pivot)
            IN  BackfillDate(lab.idnum[id], lab.pivot) = single

\* C19: a dbo.BirthDates row inserted by the batch backfill or by the
\* single-record routine has MasterItemId equal to its Id, the Id of a
\* MasterItems row; and whatever program ran last, every row that was there
\* before it is still there with the same Id and the same MasterItemId.
C19_KeyIsMasterId ==
    lab.phase = "birth" =>
        \A id \in BirthKeys :
            /\ lab.bd[id].made => (lab.bd[id].mid = id /\ id \in BirthIds)
            /\ lab.bd0[id].present =>
                  (lab.bd[id].present /\ lab.bd[id].mid = lab.bd0[id].mid)

\* A row inserted during the run has had its date shifted by a live
\* correction pass.
C19_Witness ==
    /\ lab.phase = "birth"
    /\ lab.op.name = "correct"
    /\ \E id \in BirthIds :
          /\ lab.bd0[id].made
          /\ lab.bd[id].date # lab.bd0[id].date

\* The date of an identifier's first run of six digits (first_six, then
\* derive_dob), NoDate when there is no run or the run is no date
DecodedDate(idnum, pivot) ==
    IF first_six(idnum) = <<>> THEN NoDate ELSE derive_dob(first_six(idnum), pivot)

\* C20: one run of the batch backfill inserts a row, with the decoded date,
\* for exactly the MasterItems rows that had no BirthDates row and have a
\* decodable identifier; sets the decoded date on exactly the rows whose
\* BirthDate was NULL and whose identifier is decodable; inserts no row with
\* a NULL date; and leaves every row with a date, and every record whose
\* identifier is not decodable, as it was.
C20_BackfillFrame ==
    (lab.phase = "birth" /\ lab.op.name = "backfill") =>
        \A id \in BirthIds :
            LET dob == DecodedDate(lab.idnum[id], lab.pivot)
                was == lab.bd0[id]
                now == lab.bd[id]
            IN  /\ (~was.present /\ dob # NoDate) =>
                      (now.present /\ now.mid = id /\ now.date = dob)
                /\ (was.present /\ was.date = NoDate /\ dob # NoDate) =>
                      now = [was EXCEPT !.date = dob]
                /\ (was.present /\ was.date # NoDate) => now = was
                /\ dob = NoDate => now = was
                /\ (now.present /\ ~was.present) => now.date # NoDate

\* A date as the number yyyymmdd
DateStamp(date) == date.y * 10000 + date.m * 100 + date.d

\* The row holds a date after 23 February 2008
AfterThreshold(row) ==
    row.present /\ row.date # NoDate /\ DateStamp(row.date) > 20080223

\* C21: in a rehearsal (DRY_RUN set) every dbo.BirthDates row holds the
\* same BirthDate after the run as before it, and the change set returned
\* and exported is the one a live run over the same table produces; in a
\* live run either every row above the threshold has been shifted or none
\* has, at every moment of the run.
C21_RehearsalAndAtomicity ==
    lab.phase = "correct" =>
        /\ lab.dry => lab.bd = lab.bd0
        /\ (lab.dry /\ lab.pc \in {"export", "finished"}) =>
              /\ lab.rows = TSQL_CORRECT_RECORDS(lab.bd0, FALSE).rows
              /\ lab.csv \in {<<>>, lab.rows}
        /\ ~lab.dry =>
              \/ \A id \in CorrectIds :
                    AfterThreshold(lab.bd0[id]) => lab.bd[id].date # lab.bd0[id].date
              \/ \A id \in CorrectIds :
                    AfterThreshold(lab.bd0[id]) => lab.bd[id].date = lab.bd0[id].date

\* A rehearsal over a table with two rows above the threshold has exported
\* both.
C21_Witness ==
    /\ lab.phase = "correct"
    /\ lab.dry
    /\ lab.pc = "finished"
    /\ Len(lab.csv) = 2
    /\ \A id \in CorrectIds : AfterThreshold(lab.bd[id])

\* C22: a live correction pass that ran to its end has changed exactly the
\* rows whose BirthDate is strictly after the threshold, each to the same
\* day and month 100 years earlier; rows on the threshold, before it or with
\* a NULL BirthDate are as they were; and the change set holds one row per
\* changed row, with its old and its new date, in the order of old date and
\* then Id.
C22_LiveCorrection ==
    (lab.phase = "correct" /\ ~lab.dry /\ lab.pc \in {"export", "finished"}) =>
        /\ \A id \in CorrectIds :
              IF AfterThreshold(lab.bd0[id])
              THEN /\ lab.bd[id] =
                         [lab.bd0[id] EXCEPT !.date.y = lab.bd0[id].date.y - 100]
                   /\ ValidDate(lab.bd[id].date.y, lab.bd[id].date.m,
                                lab.bd[id].date.d)
                   /\ Cardinality({k \in DOMAIN lab.rows : lab.rows[k].id = id}) = 1
                   /\ \E k \in DOMAIN lab.rows :
                         lab.rows[k] = [id |-> id, mid |-> lab.bd0[id].mid,
                                        old |-> lab.bd0[id].date,
                                        new |-> lab.bd[id].date]
              ELSE /\ lab.bd[id] = lab.bd0[id]
                   /\ \A k \in DOMAIN lab.rows : lab.rows[k].id # id
        /\ \A k \in DOMAIN lab.rows : lab.rows[k].id \in CorrectIds
        /\ \A k \in 1..(Len(lab.rows) - 1) :
              \/ DateStamp(lab.rows[k].old) < DateStamp(lab.rows[k + 1].old)
              \/ /\ lab.rows[k].old = lab.rows[k + 1].old
                 /\ lab.rows[k].id < lab.rows[k + 1].id

\* A live run has shifted 2009-06-01 to 1909-06-01 and left a row on the
\* threshold alone.
C22_Witness ==
    /\ lab.phase = "correct"
    /\ ~lab.dry
    /\ lab.pc = "finished"
    /\ \E id, other \in CorrectIds :
          /\ lab.bd0[id].date = [y |-> 2009, m |-> 6, d |-> 1]
          /\ lab.bd[id].date = [y |-> 1909, m |-> 6, d |-> 1]
          /\ lab.bd0[other].date = CORRECTION_THRESHOLD_DATE
          /\ lab.bd[other].date = CORRECTION_THRESHOLD_DATE
          /\ Len(lab.rows) = 1

\* The sample answers that read YES once blanks around them are dropped and
\* letter case is ignored
AffirmativeAnswers ==
    {<<"Y", "E", "S">>, <<"y", "e", "s">>, <<" ", "Y", "e", "s", " ">>}

\* C23: in a live run a database connection is opened, and the correction
\* statement executed, only after the operator has answered YES at the
\* prompt; after any other answer, an interrupt or a closed input at the
\* prompt the script has ended with no connection opened, no statement
\* executed and the table as it was.
C23_ConfirmBeforeCommit ==
    (lab.phase = "correct" /\ ~lab.dry) =>
        /\ (lab.opened \/ lab.executed \/ lab.pc \in {"connect", "execute", "export", "finished", "db_error"}) =>
              (lab.input.kind = "text" /\ lab.input.text \in AffirmativeAnswers)
        /\ (lab.input.kind \in {"interrupt", "eof"}
              \/ (lab.input.kind = "text" /\ lab.input.text \notin AffirmativeAnswers)) =>
              /\ lab.pc \in {"aborted", "crashed"}
              /\ ~lab.opened
              /\ ~lab.executed
              /\ lab.bd = lab.bd0
        /\ lab.executed => lab.opened

\* A live run, confirmed with YES, has executed the statement and changed a
\* row.
C23_Witness ==
    /\ lab.phase = "correct"
    /\ ~lab.dry
    /\ lab.input = [kind |-> "text", text |-> YES]
    /\ lab.executed
    /\ lab.bd # lab.bd0

\* C24: a call of get_person_prediction_async with an empty first name or
\* an empty last name has returned an error result as soon as it has run:
\* no API call was made and no back-off sleep was taken.
C24_EmptyNameFailsAtOnce ==
    (lab.phase = "unit" /\ (lab.first = "" \/ lab.last = "") /\ lab.unit.st # "new") =>
        /\ lab.unit.st = "done"
        /\ lab.unit.res.kind = "error"
        /\ lab.unit.res.error = "Missing first name or last name."
        /\ lab.unit.res.prediction = NoPayload
        /\ lab.outs = <<>>
        /\ lab.sleeps = <<>>

\* The call with a first name and an empty last name has returned.
C24_Witness ==
    /\ lab.phase = "unit"
    /\ lab.first # ""
    /\ lab.last = ""
    /\ lab.unit.st = "done"

\* C25: a response whose content does not conform to the expected schema
\* (text that is not JSON, JSON that is not an object, an object without a
\* gender or a language of the schema's lists) is a failed attempt: a
\* result that get_person_prediction_async returns as a prediction carries
\* an object with a listed gender and a listed language.
C25_MalformedNeverSucceeds ==
    (lab.phase = "unit" /\ lab.unit.res.kind = "prediction") =>
        /\ lab.unit.res.prediction.dict
        /\ lab.unit.res.prediction.gender \in GenderValues
        /\ lab.unit.res.prediction.language \in LanguageValues

\* C26: when DB_PASSWORD is missing the run of the driver is over at some
\* point: the driver has left process_master_items_in_batches_async instead
\* of trying to connect again and again.
C26_MissingPasswordStops ==
    (~cfg.pwd /\ pc = "start") => <>(pc \in {"done", "returned", "crashed"})

\* C27: when a page has been reconciled every row fetched for it has exactly
\* one outcome, prediction, error or skipped (no unit was made for it), so
\* successes + errors + skipped = rows fetched; and whenever the driver is
\* between two pages or has left its loop, the run totals of successes and
\* errors add up to the number of units started in the run.
C27_OneOutcomePerRow ==
    /\ pc \in {"upsert_g", "upsert_l", "advance"} =>
          /\ \A r \in DOMAIN rows_in_current_batch :
                LET id == rows_in_current_batch[r]
                    asPrediction == {k \in DOMAIN api_results :
                                        /\ api_results[k].item_id = id
                                        /\ api_results[k].kind = "prediction"}
                    asError == {k \in DOMAIN api_results :
                                   /\ api_results[k].item_id = id
                                   /\ api_results[k].kind = "error"}
                    skipped == IF \E k \in DOMAIN tasks : tasks[k] = id THEN 0 ELSE 1
                IN  Cardinality(asPrediction) + Cardinality(asError) + skipped = 1
          /\ CountKind(api_results, "prediction") + CountKind(api_results, "error")
                + (Len(rows_in_current_batch) - Len(tasks))
                = Len(rows_in_current_batch)
    /\ (pc \in {"loop", "done"} /\ hist.sent < CountCap) =>
          total_api_predictions_successful + total_api_errors = hist.sent

\* The driver is between the start of the page's first prediction call and
\* the settlement of its last one
MidPage ==
    \/ pc \in {"gather", "sleep_chunk"}
    \/ pc = "dispatch" /\ i > 0
    \/ InFlight # {}

\* C28: from the start of a page's first prediction call to the settlement
\* of its last one no step fetches, writes, commits or rolls back (the
\* tables, the cursor, the connection, the fetched rows and the outcome of
\* the upserts stay as they are); the page query and the two upserts are
\* executed only while no unit is running; and the upserts are executed
\* only when every unit of the page has returned and its result is gathered.
C28_DatabaseOnlyAtPageBoundaries ==
    /\ [][MidPage =>
            /\ Genders' = Genders
            /\ Languages' = Languages
            /\ conn' = conn
            /\ fetch_cursor' = fetch_cursor
            /\ rows_in_current_batch' = rows_in_current_batch
            /\ hist'.fetched = hist.fetched
            /\ hist'.gOut = hist.gOut
            /\ hist'.lOut = hist.lOut]_vars
    /\ [](pc \in {"fetch", "upsert_g", "upsert_l"} => ~MidPage)
    /\ [](pc \in {"upsert_g", "upsert_l"} =>
             /\ \A k \in DOMAIN tasks : units[k].st = "done"
             /\ Len(api_results) = Len(tasks))

\* Both upserts of a page of two units, run as two chunks, have committed.
C28_Witness ==
    /\ pc = "advance"
    /\ Len(tasks) = 2
    /\ API_CALL_CONCURRENCY = 1
    /\ hist.gOut = "committed"
    /\ hist.lOut = "committed"

\* C29: nothing in the store marks a fetched row as taken.  While one
\* instance holds a page it has fetched and not yet written, another
\* instance that is about to fetch with the same watermark gets exactly
\* that page.  (The witness is the state the claim says is reachable.)
C29_PagesOverlap ==
    lab.phase = "two" =>
        \A p \in Instances, q \in Instances :
            (/\ p # q
             /\ lab.inst[p].pc \in {"dispatch", "write"}
             /\ lab.inst[q].pc = "fetch"
             /\ lab.inst[q].last_processed_id = lab.inst[p].last_processed_id) =>
                FetchPage(DB_BATCH_SIZE, lab.inst[q].last_processed_id) = lab.inst[p].rows

\* The same MasterItems row has been dispatched to the prediction service by
\* both instances.
C29_Witness ==
    /\ lab.phase = "two"
    /\ lab.inst[1].sent \cap lab.inst[2].sent # {}

\* The 13-digit strings that agree with the mask at every place that is not
\* a wildcard
MatchingMask(mask) ==
    LET wild == {k \in DOMAIN mask : mask[k] = "*"}
    IN  {[k \in DOMAIN mask |-> IF k \in wild THEN f[k] ELSE mask[k]] :
            f \in [wild -> Digits]}

\* What the claim asks of a yielded string: a date under the pivot rule in
\* the first six digits, the sequence block on the side of 5000 that the
\* gender setting names, the check digit of the first twelve digits last
WantedId(id13, gender, now) ==
    LET yy == DigitVal(id13[1]) * 10 + DigitVal(id13[2])
        mm == DigitVal(id13[3]) * 10 + DigitVal(id13[4])
        dd == DigitVal(id13[5]) * 10 + DigitVal(id13[6])
        block == DigitVal(id13[7]) * 1000 + DigitVal(id13[8]) * 100
                    + DigitVal(id13[9]) * 10 + DigitVal(id13[10])
    IN  /\ ValidDate((IF yy > now THEN 1900 ELSE 2000) + yy, mm, dd)
        /\ gender \in {"F", "f"} => block < 5000
        /\ gender \in {"M", "m"} => block >= 5000
        /\ id13[13] = luhn_sa(SubSeq(id13, 1, 12))

\* C30: every string generate_ids has yielded is wanted; and when the
\* generator is used up it has yielded exactly the wanted strings among
\* those that match the mask, each of them once.
C30_GenerateIds ==
    lab.phase = "mask" =>
        /\ \A k \in DOMAIN lab.out :
              /\ lab.out[k] \in MatchingMask(lab.mask)
              /\ WantedId(lab.out[k], lab.GENDER, IntOf(lab.now2))
              /\ \A j \in DOMAIN lab.out : lab.out[j] = lab.out[k] => j = k
        /\ lab.pc = "end" =>
              {lab.out[k] : k \in DOMAIN lab.out}
                  = {id13 \in MatchingMask(lab.mask) :
                        WantedId(id13, lab.GENDER, IntOf(lab.now2))}

\* The generator is used up for a mask with two wildcards and GENDER M, and
\* has yielded ten strings, one of them with sequence block 5000.
C30_Witness ==
    /\ lab.phase = "mask"
    /\ lab.pc = "end"
    /\ lab.GENDER = "M"
    /\ Len(lab.out) = 10
    /\ \E k \in DOMAIN lab.out : SubSeq(lab.out[k], 7, 10) = <<"5", "0", "0", "0">>

\* C31: a unit in its back-off sleep has failed attempt n (counted from 1),
\* which was not the last one, and sleeps RETRY_DELAY_SECONDS * n; a unit
\* that is not sleeping awaits no delay, so none follows the final attempt;
\* and while a unit of a chunk sleeps, every other unit of the chunk that
\* awaits its API call can receive the answer.
C31_LinearBackoff ==
    \A k \in DOMAIN units :
        /\ units[k].st = "sleeping" =>
              /\ units[k].attempt + 1 < RETRY_ATTEMPTS
              /\ units[k].delay = RETRY_DELAY_SECONDS * (units[k].attempt + 1)
              /\ \A j \in DOMAIN units :
                    units[j].st = "calling" =>
                        ENABLED (UnitCall /\ units'[j] # units[j] /\ units'[k] = units[k])
        /\ units[k].st # "sleeping" => units[k].delay = 0
        /\ units[k].attempt <= RETRY_ATTEMPTS - 1

\* A unit sleeps 10 s after its second failed attempt while the other unit
\* of its chunk has returned a prediction.
C31_Witness ==
    \E k \in DOMAIN units, j \in DOMAIN units :
        /\ j # k
        /\ units[k].st = "sleeping"
        /\ units[k].delay = 10
        /\ units[j].st = "done"
        /\ units[j].res.kind = "prediction"

\* The chunk a task position belongs to, counted from 0
ChunkOf(k) == (k - 1) \div API_CALL_CONCURRENCY

\* C32: a unit has started only if every unit of the earlier chunks has
\* returned, and at most API_CALL_CONCURRENCY units belong to a chunk; the
\* results collected so far are those of the first tasks, in task order;
\* when a gather returns the driver takes the pause of line 333 if a chunk
\* is left and goes on to the reconciliation, without a pause, if none is;
\* and a later chunk is dispatched only out of that pause.
C32_ChunksInOrder ==
    /\ [](\A k \in DOMAIN units : \A j \in DOMAIN units :
             (ChunkOf(j) < ChunkOf(k) /\ units[k].st # "new") => units[j].st = "done")
    /\ [](\A c \in 0..Len(tasks) :
             Cardinality({k \in DOMAIN tasks : ChunkOf(k) = c}) <= API_CALL_CONCURRENCY)
    /\ [](/\ Len(api_results) <= Len(tasks)
          /\ \A k \in DOMAIN api_results :
                /\ api_results[k].item_id = tasks[k]
                /\ api_results[k].kind = units[k].res.kind
                /\ api_results[k].prediction = units[k].res.prediction)
    /\ [][(pc = "gather" /\ pc' # "gather") =>
             IF \E k \in DOMAIN units : units[k].st = "new"
             THEN pc' = "sleep_chunk"
             ELSE pc' = "reconcile"]_vars
    /\ [][(pc' = "dispatch" /\ i' > 0 /\ pc # "dispatch") => pc = "sleep_chunk"]_vars
    /\ [][pc = "sleep_chunk" => (pc' = "dispatch" /\ i' = i + API_CALL_CONCURRENCY)]_vars

\* The second chunk of a page is awaited after the pause, and the result of
\* the first chunk is collected.
C32_Witness ==
    /\ pc = "gather"
    /\ i = API_CALL_CONCURRENCY
    /\ Len(api_results) = i
    /\ \E k \in DOMAIN units : k > i /\ units[k].st = "calling"

\* C33: no unit is made for a fetched row whose FullName or Surname is blank
\* after str.strip(), and the page goes on; the watermark set at the end of
\* the page is the page's last Id, skipped rows included; and a page whose
\* rows are all skipped sets the watermark to its last Id, after which the
\* driver is back at the head of its loop to fetch the next page.
C33_BlankRowsSkipped ==
    /\ [](\A k \in DOMAIN tasks :
             /\ PyStrip(MasterItems[tasks[k]].FullName) # ""
             /\ PyStrip(MasterItems[tasks[k]].Surname) # "")
    /\ [](pc \in {"sleep_skip", "skip_continue"} =>
             /\ tasks = <<>>
             /\ rows_in_current_batch # <<>>
             /\ last_processed_id = Last(rows_in_current_batch))
    /\ [][pc = "advance" => last_processed_id' = Last(rows_in_current_batch)]_vars
    /\ [][(pc = "sleep_skip" \/ pc = "skip_continue") => (pc' = "loop")]_vars

\* C34: last_processed_id never decreases, and it increases whenever a page
\* with rows completes (line 368, or line 318 for a page with no task);
\* and while no store error has occurred no row is fetched a second time,
\* so that no more units are started than rows were fetched.
C34_NoRowTwice ==
    /\ [][last_processed_id' >= last_processed_id]_vars
    /\ [][(pc = "advance" \/ (pc = "fetch" /\ pc' \in {"sleep_skip", "skip_continue"}))
             => last_processed_id' > last_processed_id]_vars
    /\ [][(pc = "fetch" /\ faults' = 0 /\ pc' \in {"dispatch", "sleep_skip", "skip_continue"})
             => \A k \in DOMAIN rows_in_current_batch' :
                   rows_in_current_batch'[k] \notin hist.fetched]_vars
    /\ []((faults = 0 /\ hist.sent < CountCap) =>
             hist.sent <= Cardinality(hist.fetched))

\* C35: whenever the driver is between two iterations, about to connect, or
\* has returned, the connection and the cursor of the last iteration are not
\* open (so a new connection is opened only when none is open); and on every
\* path the finally clause of lines 384-388 is reached with the connection
\* still open, so that its close() is the only one of the iteration.
C35_ClosedExactlyOnce ==
    /\ (pc \in {"loop", "connect", "sleep_batch", "done"}) =>
          (conn # "open" /\ fetch_cursor # "open")
    /\ (pc \in {"advance", "sleep30", "sleep10", "sleep_skip", "skip_continue"}) =>
          conn = "open"
    /\ pc # "crashed"

\* A record that has a row in exactly one of the two tables G and L
PartialRecord(id, G, L) == (G[id] = <<>>) # (L[id] = <<>>)

\* The rows of key id after a committed upsert of value d
AfterUpsert(rows, d) ==
    IF rows = <<>> THEN <<d>>
    ELSE [k \in DOMAIN rows |-> IF rows[k] # d THEN d ELSE rows[k]]

\* C36: a record with a row in only one of the two tables, past the
\* watermark and with both names present, is on the page fetched and gets a
\* prediction task; and when its prediction holds both fields and both
\* upserts committed, its Genders row and its Languages row hold the
\* predicted values: a missing row is inserted, an existing row with another
\* value is replaced, an existing row with the same value stays as it was.
C36_PartialRecordCompleted ==
    /\ (pc = "dispatch" /\ i = 0) =>
          \A id \in Ids :
             ( /\ PartialRecord(id, hist.G0, hist.L0)
               /\ id > hist.wm0
               /\ id <= Last(rows_in_current_batch)
               /\ MasterItems[id].FullName = "text"
               /\ MasterItems[id].Surname = "text" )
             => /\ \E k \in DOMAIN rows_in_current_batch : rows_in_current_batch[k] = id
                /\ \E k \in DOMAIN tasks : tasks[k] = id
    /\ (pc = "advance" /\ hist.gOut = "committed" /\ hist.lOut = "committed") =>
          \A k \in DOMAIN api_results :
             LET r == api_results[k]
             IN  ( /\ r.kind = "prediction"
                   /\ r.prediction.gender # NULL
                   /\ r.prediction.language # NULL
                   /\ PartialRecord(r.item_id, hist.G0, hist.L0) )
                 => /\ Genders[r.item_id] =
                          AfterUpsert(hist.G0[r.item_id], r.prediction.gender)
                    /\ Languages[r.item_id] =
                          AfterUpsert(hist.L0[r.item_id], r.prediction.language)

\* A record that had gender FEMALE and no language was predicted MALE and
\* English: its gender is replaced and its language inserted.
C36_Witness ==
    /\ pc = "advance"
    /\ hist.gOut = "committed"
    /\ hist.lOut = "committed"
    /\ \E k \in DOMAIN api_results :
          LET id == api_results[k].item_id
          IN  /\ hist.G0[id] = <<"FEMALE">>
              /\ hist.L0[id] = <<>>
              /\ Genders[id] = <<"MALE">>
              /\ Languages[id] = <<"English">>

\* The number of batches of size n that k rows make
Batches(k, n) == (k + n - 1) \div n

\* An IDNumber that yields no birth date: it does not start with six digits,
\* or the six digits are not a date
Undecodable(id_number, pivot) ==
    ~LikeSixDigits(id_number) \/ BackfillDate(id_number, pivot) = NoDate

\* C37: a run of the batch backfill ends.  With c1 rows eligible for the
\* insert and c2 rows eligible for the update once the inserts are made,
\* phase 1 makes one iteration for each batch of the c1 rows and one more
\* that touches nothing, phase 2 likewise for the c2 rows; the run reports
\* c1 and c2; no row is eligible for either phase afterwards; and a row with
\* an undecodable identifier is as it was.
C37_BackfillTerminates ==
    (lab.phase = "birth" /\ lab.op.name = "backfill") =>
       LET c1 == InsertCandidates(lab.idnum, lab.bd0, lab.pivot)
           one == InsertLoop(lab.idnum, lab.pivot,
                             [bd |-> lab.bd0, total |-> 0, rounds |-> 0])
           c2 == UpdateCandidates(lab.idnum, one.bd, lab.pivot)
           two == UpdateLoop(lab.idnum, lab.pivot,
                             [bd |-> one.bd, total |-> 0, rounds |-> 0])
       IN  /\ one.rounds = Batches(Cardinality(c1), BATCH_SIZE) + 1
           /\ two.rounds = Batches(Cardinality(c2), BATCH_SIZE) + 1
           /\ lab.ins = Cardinality(c1)
           /\ lab.upd = Cardinality(c2)
           /\ lab.bd = two.bd
           /\ InsertCandidates(lab.idnum, lab.bd, lab.pivot) = {}
           /\ UpdateCandidates(lab.idnum, lab.bd, lab.pivot) = {}
           /\ \A id \in BirthIds :
                 Undecodable(lab.idnum[id], lab.pivot) => lab.bd[id] = lab.bd0[id]

\* A run that filled the NULL date of more rows than one batch holds: phase
\* 2 made two iterations that touched rows before the one that touched none.
C37_Witness ==
    /\ lab.phase = "birth"
    /\ lab.op.name = "backfill"
    /\ lab.upd > BATCH_SIZE
    /\ \E id \in BirthKeys :
          /\ lab.bd0[id].present
          /\ lab.bd0[id].date = NoDate
          /\ lab.bd[id].date # NoDate

\* C38: after a run of the batch backfill, a second run on the table it
\* left, with the same MasterItems and the same current year, reports 0
\* rows inserted and 0 rows updated and leaves every row as it is.
C38_SecondBackfillIdle ==
    (lab.phase = "birth" /\ lab.op.name = "backfill") =>
       LET one == InsertLoop(lab.idnum, lab.pivot,
                             [bd |-> lab.bd, total |-> 0, rounds |-> 0])
           two == UpdateLoop(lab.idnum, lab.pivot,
                             [bd |-> one.bd, total |-> 0, rounds |-> 0])
       IN  /\ one.total = 0
           /\ two.total = 0
           /\ two.bd = lab.bd

\* The first run inserted a row and filled a NULL date.
C38_Witness ==
    /\ lab.phase = "birth"
    /\ lab.op.name = "backfill"
    /\ lab.ins > 0
    /\ lab.upd > 0

\* C39: after a live correction pass every row of its change set holds its
\* date shifted by 100 years, which is not NULL; a run of the batch backfill
\* leaves every row that holds a date exactly as it is; so the run that
\* follows a live correction leaves every corrected row at its corrected
\* value, and so does every run after it.
C39_CorrectionSurvivesBackfill ==
    /\ []((lab.phase = "birth" /\ lab.op.name = "correct" /\ ~lab.op.dry) =>
             \A id \in lab.changed :
                /\ lab.bd[id].present
                /\ lab.bd[id].date # NoDate
                /\ lab.bd[id].date = HundredYearsBefore(lab.bd0[id].date))
    /\ [][(lab.phase = "birth" /\ lab'.op.name = "backfill") =>
             \A id \in BirthKeys :
                (lab.bd[id].present /\ lab.bd[id].date # NoDate) =>
                   lab'.bd[id] = lab.bd[id]]_vars
    /\ [][(lab.phase = "birth" /\ lab.op.name = "correct" /\ ~lab.op.dry
              /\ lab'.op.name = "backfill") =>
             \A id \in lab.changed : lab'.bd[id] = lab.bd[id]]_vars

\* A backfill run has ended, and a row whose identifier decodes to 1 June
\* 2009 holds 1 June 1909, the value a live correction gave it.
C39_Witness ==
    /\ lab.phase = "birth"
    /\ lab.op.name = "backfill"
    /\ \E id \in BirthIds :
          /\ lab.bd[id].date = [y |-> 1909, m |-> 6, d |-> 1]
          /\ lab.bd0[id].date = [y |-> 1909, m |-> 6, d |-> 1]
          /\ BackfillDate(lab.idnum[id], lab.pivot) = [y |-> 2009, m |-> 6, d |-> 1]

\* The last day the claim's condition admits: the threshold plus 100 years
CenturyAfterThreshold ==
    [CORRECTION_THRESHOLD_DATE EXCEPT !.y = @ + 100]

\* No date of table bd is later than the threshold plus 100 years
WithinCentury(bd) ==
    \A id \in DOMAIN bd :
       (bd[id].present /\ bd[id].date # NoDate) =>
          ~DateGreater(bd[id].date, CenturyAfterThreshold)

\* C40: when no stored date is later than the threshold plus 100 years,
\* no row holds a date above the threshold once the first live pass is
\* made, and the second live pass changes no row and returns no row.
C40_SecondCorrectionIdle ==
    (lab.phase = "repeat" /\ WithinCentury(lab.first)) =>
       /\ lab.passes >= 1 => AboveThreshold(lab.bd) = {}
       /\ lab.passes >= 2 => (lab.bd = lab.bd0 /\ lab.rows = <<>>)

\* Two passes are made over a table that held 23 February 2108, the last
\* day admitted, and a date above the threshold that the first pass moved.
C40_Witness ==
    /\ lab.phase = "repeat"
    /\ lab.passes = 2
    /\ WithinCentury(lab.first)
    /\ \E id \in CorrectIds :
          /\ lab.first[id].date = CenturyAfterThreshold
          /\ lab.bd[id].date = CORRECTION_THRESHOLD_DATE
    /\ lab.rows = <<>>

============================================================================
